---- MODULE Spec2Model ----
(***************************************************************************)
(* A model of the rusty-xv6 kernel's block cache, IDE driver, sleep/wakeup *)
(* channel, interrupt-flag nesting and inode cache.                        *)
(*                                                                         *)
(* The source tree carries two generations of the file system code:       *)
(*   kernel/src/fs.rs            list-based caches (arena + intrusive      *)
(*                               used/unused lists, atomic ref counts)     *)
(*   kernel/src/fs/{bcache,ide,inode}.rs                                   *)
(*                               map-based caches and the PIO IDE queue    *)
(* Each generation is modelled by its own group of variables and its own  *)
(* specification; a specification leaves the other groups untouched.       *)
(***************************************************************************)
EXTENDS Integers, Sequences, FiniteSets, TLC

(***************************************************************************)
(* Bounds of the model.                                                    *)
(***************************************************************************)
\* number of buffers in the arena of the list cache (30 in fs.rs:253)
N_BUF == 3
\* kernel threads working on the list cache
NThreads == 2
\* BufRef handles one thread holds at a time
MaxRefs == 2
\* block numbers 0..MaxBlock on device 0
MaxBlock == 3
\* get calls one thread makes in a run
MaxGets == 2

Threads == 1..NThreads
Blocks == 0..MaxBlock

(***************************************************************************)
(* Constants of the program.                                               *)
(***************************************************************************)
NULL == -1
B_VALID == 2
B_DIRTY == 4
\* A usize (32 bits on i386) is kept as its two's-complement representative:
\* v >= 0 stands for v, v < 0 stands for 2^32 + v.  fetch_add and fetch_sub
\* wrap, so 0 - 1 is usize::MAX, written -1 here.
fetch_add(v) == v + 1
fetch_sub(v) == v - 1

VARIABLES
    \* ---- list cache, kernel/src/fs.rs ----
    arena,      \* [0..N_BUF-1 -> BufNode]: link (prev, next) and Buf fields
    used,       \* Bcache.used: head of the in-use list
    unused,     \* Bcache.unused: head of the unused list
    held,       \* held[t][b]: live BufRef handles of thread t to buffer b
    dpc,        \* where thread t is inside drop_ref
    dbuf,       \* the buffer thread t is dropping
    halted,     \* "" while the kernel runs, else the panic message
    ngets,      \* ngets[t]: get calls thread t has made (bounds the run)
    lastdrop    \* history: the buffers Bcache::release has run on, the most
                \* recently released first

listVars == <<arena, used, unused, held, dpc, dbuf, halted, ngets, lastdrop>>

VARIABLES
    \* ---- per-CPU interrupt state, kernel/src/proc.rs Cpu and EFLAGS ----
    cpu         \* [CPUs -> record], see CliInit

cliVars == <<cpu>>

VARIABLES
    \* ---- map buffer cache, kernel/src/fs/bcache.rs ----
    cache,      \* Bcache.cache: key -> [ref_cnt, buf], buf = NULL when absent
    bufs,       \* the heap cells a SleepMutex<Buf> can occupy, by address
    \* ---- IDE driver, kernel/src/fs/ide.rs ----
    ideq,       \* IdeQueue.que
    running,    \* IdeQueue.running
    ideLock,    \* holder of the IDE_QUEUE spinlock, or FREE
    drive,      \* the drive's registers as start() leaves them, with the
                \* number of start() calls since the last completion
    disk,       \* the blocks on the disk
    \* ---- process table: sleep / wakeup ----
    ptLock,     \* holder of the process-table spinlock, or FREE
    pstate,     \* state of each kernel thread's process
    pchan,      \* its sleep channel
    \* ---- kernel threads and the interrupt path ----
    tpc,        \* where each thread is
    tbuf,       \* the Buf (address) the thread's call is about, or NULL
    tfn,        \* the driver function the thread is in
    spos,       \* steps of sleep() the thread has done
    isr,        \* vector being handled on the interrupt CPU, 0 = none
    hpc,        \* where ide_intr is
    hreq,       \* the request notify_ready popped, with the status byte
                \* its wait(true) read
    ihalted,    \* "" or the panic message
    nreads,     \* bcache::read calls made by each thread
    \* ---- history ----
    wakes,      \* 1 once wakeup ran on the channel of the thread's last sleep
    wpay        \* payload of the buffer when the thread called Buf::write

ideVars == <<cache, bufs, ideq, running, ideLock, drive, disk, ptLock, pstate,
             pchan, tpc, tbuf, tfn, spos, isr, hpc, hreq, ihalted, nreads, wakes, wpay>>

VARIABLES
    \* ---- inode cache: kernel/src/fs.rs (list) and kernel/src/fs/inode.rs (map)
    idraft,     \* which of the two inode caches the run is about
    iarena,     \* list: ICACHE_ARENA
    iused,      \* list: Icache.used
    iunused,    \* list: Icache.unused
    imap,       \* map: Icache.cache, key -> the Inode its Weak points to, or NULL
    iobj,       \* map: the heap cells an Arc<Inode> can occupy
    ihold,      \* InodeRefs each thread holds, per Inode
    ipc,        \* where each thread is
    idrop,      \* the Inode the thread is dropping
    ihalt,      \* "" or the panic message
    igets       \* Icache::get calls made by each thread

icVars == <<idraft, iarena, iused, iunused, imap, iobj, ihold, ipc, idrop, ihalt, igets>>

VARIABLES
    \* ---- spinlocks, kernel/src/lock.rs mod spin ----
    slock,      \* [Locks -> [locked, cpu]]: SpinLock.locked and SpinLock.cpu
    spc,        \* where each CPU is inside acquire / release, and on which lock
    shold       \* history: the locks whose acquire has returned on the CPU and
                \* that it has not unlocked since

spinVars == <<slock, spc, shold>>

VARIABLES
    \* ---- process table and scheduler, kernel/src/proc.rs ----
    runnable,       \* ProcessTable.runnable (a Vec, the last element is popped)
    next_pid,       \* ProcessTable.next_pid
    procs,          \* the heap cells an Arc<SpinMutex<Process>> can occupy
    current_proc,   \* Cpu.current_proc of every CPU
    ptableLock,     \* holder of the PROC_TABLE spinlock, or FREE
    schpc,          \* where each CPU is (main / scheduler / the process)
    schp,           \* the ProcessRef p of the CPU's scheduler
    FIRST_TIME,     \* forkret's static
    pidlog,         \* history: the pids take_next_pid has handed out, in order
    plock,          \* holder of each process's own SpinMutex ("process"), or FREE
    lockEdges       \* history: <<held, acquired>> for every spinlock taken
                    \* while another one was held

schedVars == <<runnable, next_pid, procs, current_proc, ptableLock, schpc, schp,
               FIRST_TIME, pidlog, plock, lockEdges>>

VARIABLES
    \* ---- physical page allocator, kernel/src/kalloc.rs ----
    free_list,      \* Kmem.free_list: the first free frame, or NULL
    knext,          \* the Run.next word at the start of every frame
    use_lock,       \* Kmem.use_lock
    kinit,          \* frames free_range has passed to kfree so far
    kowner,         \* history: who has each frame ("out", "free", or a CPU)
    kret,           \* history: what the CPU's last kalloc returned
    kfreed          \* history: the free frames, the most recently freed first

kmemVars == <<free_list, knext, use_lock, kinit, kowner, kret, kfreed>>

VARIABLES
    \* ---- page tables, kernel/src/vm.rs and kernel/src/memory.rs ----
    pgdir,          \* the PageDirectory: one PageDirEntry (a u32) per index
    ptmem,          \* the frames kalloc hands out for page tables: their PTEs
    ptfree,         \* the frames kalloc still has
    mcall,          \* history: arguments and result of the last map_pages
    nmaps           \* map_pages calls made (bounds the run)

vmVars == <<pgdir, ptmem, ptfree, mcall, nmaps>>

VARIABLES
    \* ---- path walking, kernel/src/fs/inode.rs:225-270 ----
    path,           \* name_x's `path`: the bytes still to be walked
    split,          \* history: argument and result of the last split_first
    path0,          \* history: the path name_x was called with
    names,          \* history: the elements split_first has returned, in order
    nstart          \* where name_x starts its walk: "none" before the call

pathVars == <<path, split, path0, names, nstart>>

VARIABLES
    \* ---- address rounding, utils/src/address.rs:75-95 ----
    raddr,          \* the raw address of the Addr that is rounded
    ralign,         \* the alignment asked for
    rounded         \* history: what round_up and round_down returned

roundVars == <<raddr, ralign, rounded>>

VARIABLES
    \* ---- the common trap handler, kernel/src/trap.rs ----
    TICKS,          \* the value the "time" SpinMutex guards
    tno,            \* trap_no of the trap frame each CPU is handling, 0 = none
    eois            \* history: LAPIC EOI writes of each CPU

trapVars == <<TICKS, tno, eois>>

VARIABLES
    \* ---- multiprocessor start-up, kernel/src/main.rs:112-160 ----
    main_cpu_id,    \* index of the boot CPU in cpus()
    started,        \* CpuShared.started of every CPU
    mpc,            \* how far each CPU is in mp_enter / mp_main
    so,             \* start_others on the boot CPU: where it is, and its idx
    ipis            \* history: the IPIs start_ap has sent to each CPU

mpVars == <<main_cpu_id, started, mpc, so, ipis>>

VARIABLES
    \* ---- forkret, kernel/src/proc.rs:475-485 ----
    fpc,            \* where the process on each CPU is inside forkret
    fcas,           \* what its compare_and_swap returned
    fcalls,         \* processes that have entered forkret on each CPU
    fentered,       \* history: the CPUs in the order of their compare_and_swap
    first_runs      \* history: executions of the first-time branch

fkVars == <<fpc, fcas, fcalls, fentered, first_runs>>

VARIABLES
    \* ---- kernel stacks, kernel/src/proc.rs:328-362, main.rs:144-151 ----
    sfl,            \* head of the allocator's free list
    snext,          \* the next pointer kept in each free frame
    sowner,         \* what each frame is used for
    kstacks,        \* the kernel stacks set up so far, with their pointers
    shalted         \* the panic message, "" while the kernel runs

stkVars == <<sfl, snext, sowner, kstacks, shalted>>

vars == <<listVars, cliVars, ideVars, icVars, spinVars, schedVars, kmemVars, vmVars, pathVars, roundVars, trapVars, mpVars, fkVars, stkVars>>

\* what the actions of one group leave alone
notList == <<cliVars, ideVars, icVars, spinVars, schedVars, kmemVars, vmVars, pathVars, roundVars, trapVars, mpVars, fkVars, stkVars>>
notCli == <<listVars, ideVars, icVars, spinVars, schedVars, kmemVars, vmVars, pathVars, roundVars, trapVars, mpVars, fkVars, stkVars>>
notIde == <<listVars, cliVars, icVars, spinVars, schedVars, kmemVars, vmVars, pathVars, roundVars, trapVars, mpVars, fkVars, stkVars>>
notIc == <<listVars, cliVars, ideVars, spinVars, schedVars, kmemVars, vmVars, pathVars, roundVars, trapVars, mpVars, fkVars, stkVars>>
\* the spinlock code works on the per-CPU interrupt state as well
notSpin == <<listVars, ideVars, icVars, schedVars, kmemVars, vmVars, pathVars, roundVars, trapVars, mpVars, fkVars, stkVars>>

notSched == <<listVars, cliVars, ideVars, icVars, spinVars, kmemVars, vmVars, pathVars, roundVars, trapVars, mpVars, fkVars, stkVars>>

notKmem == <<listVars, cliVars, ideVars, icVars, spinVars, schedVars, vmVars, pathVars, roundVars, trapVars, mpVars, fkVars, stkVars>>

notVm == <<listVars, cliVars, ideVars, icVars, spinVars, schedVars, kmemVars, pathVars, roundVars, trapVars, mpVars, fkVars, stkVars>>

notPath == <<listVars, cliVars, ideVars, icVars, spinVars, schedVars, kmemVars, vmVars, roundVars, trapVars, mpVars, fkVars, stkVars>>

notRound == <<listVars, cliVars, ideVars, icVars, spinVars, schedVars, kmemVars, vmVars, pathVars, trapVars, mpVars, fkVars, stkVars>>

notTrap == <<listVars, cliVars, ideVars, icVars, spinVars, schedVars, kmemVars, vmVars, pathVars, roundVars, mpVars, fkVars, stkVars>>

notMp == <<listVars, cliVars, ideVars, icVars, spinVars, schedVars, kmemVars, vmVars, pathVars, roundVars, trapVars, fkVars, stkVars>>

\* forkret works on FIRST_TIME of the scheduler group
notFk == <<listVars, cliVars, ideVars, icVars, spinVars, kmemVars, vmVars, pathVars, roundVars, trapVars, mpVars, stkVars>>

notStk == <<listVars, cliVars, ideVars, icVars, spinVars, schedVars, kmemVars, vmVars, pathVars, roundVars, trapVars, mpVars, fkVars>>

BufIdx == 0..(N_BUF - 1)

----------------------------------------------------------------------------
(***************************************************************************)
(* List cache: kernel/src/fs.rs, mod bcache                                *)
(***************************************************************************)

\* Bcache::init: the arena chained 0 -> 1 -> ... on the unused list,
\* every Buf as Buf::zero() leaves it.
ListVarsInit ==
    /\ arena = [i \in BufIdx |->
                  [prev |-> IF i > 0 THEN i - 1 ELSE NULL,
                   next |-> IF i < N_BUF - 1 THEN i + 1 ELSE NULL,
                   dev |-> 0, block_no |-> 0, ref_cnt |-> 0, flags |-> 0]]
    /\ used = NULL
    /\ unused = 0
    /\ held = [t \in Threads |-> [b \in BufIdx |-> 0]]
    /\ dpc = [t \in Threads |-> "idle"]
    /\ dbuf = [t \in Threads |-> NULL]
    /\ halted = ""
    /\ ngets = [t \in Threads |-> 0]
    /\ lastdrop = <<>>

\* Buf::dirty, Buf::valid, Buf::unused
dirty(b) == (b.flags \div B_DIRTY) % 2 = 1
valid(b) == (b.flags \div B_VALID) % 2 = 1
buf_unused(b) == b.ref_cnt = 0 /\ ~dirty(b)

\* The walk of search_cached over the in-use list.  A walk that does not end
\* within N_BUF nodes is going round a cycle and never returns: LOOP.
LOOP == -2
RECURSIVE search_cached(_, _, _, _, _)
search_cached(a, p, dev, blk, fuel) ==
    IF p = NULL THEN NULL
    ELSE IF a[p].dev = dev /\ a[p].block_no = blk THEN p
    ELSE IF fuel = 0 THEN LOOP
    ELSE search_cached(a, a[p].next, dev, blk, fuel - 1)

\* take_unused: unlink the head of the unused list and push it on the in-use
\* list.  Returns the arena and the two heads after the pointer updates, in
\* the order the code makes them.
take_unused(a, us, un) ==
    LET node == un
        next == a[node].next
        a1 == IF next # NULL THEN [a EXCEPT ![next].prev = NULL] ELSE a
        a2 == [a1 EXCEPT ![node].next = us]
        a3 == IF us # NULL THEN [a2 EXCEPT ![us].prev = node] ELSE a2
    IN [arena |-> a3, used |-> node, unused |-> next, node |-> node]

\* Bcache::release: unlink buf from the in-use list, push it on the unused list.
release(a, us, un, b) ==
    LET p == a[b].prev
        n == a[b].next
        a1 == IF p # NULL THEN [a EXCEPT ![p].next = n] ELSE a
        us1 == IF p # NULL THEN us ELSE n
        a2 == IF n # NULL THEN [a1 EXCEPT ![n].prev = p] ELSE a1
        a3 == IF un # NULL THEN [a2 EXCEPT ![un].prev = b] ELSE a2
        a4 == [a3 EXCEPT ![b].prev = NULL, ![b].next = un]
    IN [arena |-> a4, used |-> us1, unused |-> b]

HeldBy(t) == LET RECURSIVE Sum(_)
                 Sum(S) == IF S = {} THEN 0
                           ELSE LET b == CHOOSE x \in S : TRUE
                                IN held[t][b] + Sum(S \ {b})
             IN Sum(BufIdx)

\* get calls made so far by all threads
GetsMade == LET RECURSIVE Sum(_)
                Sum(S) == IF S = {} THEN 0
                          ELSE LET t == CHOOSE x \in S : TRUE
                               IN ngets[t] + Sum(S \ {t})
            IN Sum(Threads)

\* BCACHE.lock().get(dev, block_no) by thread t (fs.rs:196-208, as called in
\* read and in test_bcache).  The whole call runs under the bcache spinlock.
\* Block numbers are named in the order of their first use: a get asks for
\* a block number no larger than the number of gets made before it.
Get(t, dev, blk) ==
    /\ halted = ""
    /\ UNCHANGED notList
    /\ dpc[t] = "idle"
    /\ HeldBy(t) < MaxRefs
    /\ ngets[t] < MaxGets
    /\ blk <= GetsMade
    /\ ngets' = [ngets EXCEPT ![t] = @ + 1]
    /\ UNCHANGED lastdrop
    /\ LET hit == search_cached(arena, used, dev, blk, N_BUF)
       IN IF hit = LOOP
          THEN /\ halted' = "hang: search_cached"
               /\ UNCHANGED <<arena, used, unused, held, dpc, dbuf>>
          ELSE IF hit # NULL
          THEN \* Buf::dup
               /\ arena' = [arena EXCEPT ![hit].ref_cnt = fetch_add(@)]
               /\ held' = [held EXCEPT ![t][hit] = @ + 1]
               /\ UNCHANGED <<used, unused, dpc, dbuf, halted>>
          ELSE IF unused = NULL
          THEN /\ halted' = "Bcache::get: no buffers"
               /\ UNCHANGED <<arena, used, unused, held, dpc, dbuf>>
          ELSE IF arena[unused].prev # NULL
          THEN /\ halted' = "take_unused: assert_eq prev null"
               /\ UNCHANGED <<arena, used, unused, held, dpc, dbuf>>
          ELSE LET r == take_unused(arena, used, unused)
               IN /\ arena' = [r.arena EXCEPT ![r.node].dev = dev,
                                              ![r.node].block_no = blk,
                                              ![r.node].flags = 0,
                                              ![r.node].ref_cnt = 1]
                  /\ used' = r.used
                  /\ unused' = r.unused
                  /\ held' = [held EXCEPT ![t][r.node] = @ + 1]
                  /\ UNCHANGED <<dpc, dbuf, halted>>

\* Buf::set_flags through a live handle.
SetFlags(t, b, f) ==
    /\ halted = ""
    /\ UNCHANGED notList
    /\ dpc[t] = "idle"
    /\ held[t][b] > 0
    /\ arena[b].flags # f
    /\ arena' = [arena EXCEPT ![b].flags = f]
    /\ UNCHANGED <<used, unused, held, dpc, dbuf, halted, ngets, lastdrop>>

\* drop of a BufRef, first step: drop_ref's decrement_ref_cnt (fetch_sub).
DropDec(t, b) ==
    /\ halted = ""
    /\ UNCHANGED notList
    /\ dpc[t] = "idle"
    /\ held[t][b] > 0
    /\ held' = [held EXCEPT ![t][b] = @ - 1]
    /\ arena' = [arena EXCEPT ![b].ref_cnt = fetch_sub(@)]
    /\ dpc' = [dpc EXCEPT ![t] = "check"]
    /\ dbuf' = [dbuf EXCEPT ![t] = b]
    /\ UNCHANGED <<used, unused, halted, ngets, lastdrop>>

\* drop_ref, second step: the separate load get_ref_cnt() == 0.
DropCheck(t) ==
    /\ halted = ""
    /\ UNCHANGED notList
    /\ dpc[t] = "check"
    /\ IF arena[dbuf[t]].ref_cnt = 0
       THEN /\ dpc' = [dpc EXCEPT ![t] = "release"]
            /\ UNCHANGED dbuf
       ELSE /\ dpc' = [dpc EXCEPT ![t] = "idle"]
            /\ dbuf' = [dbuf EXCEPT ![t] = NULL]
    /\ UNCHANGED <<arena, used, unused, held, halted, ngets, lastdrop>>

\* drop_ref, third step: release_buf takes the bcache lock and runs release.
DropRelease(t) ==
    /\ halted = ""
    /\ UNCHANGED notList
    /\ dpc[t] = "release"
    /\ IF arena[dbuf[t]].ref_cnt # 0
       THEN /\ halted' = "Bcache::release: assert_eq ref_cnt 0"
            /\ UNCHANGED <<arena, used, unused, held, dpc, dbuf, ngets, lastdrop>>
       ELSE LET r == release(arena, used, unused, dbuf[t])
            IN /\ arena' = r.arena
               /\ used' = r.used
               /\ unused' = r.unused
               /\ dpc' = [dpc EXCEPT ![t] = "idle"]
               /\ dbuf' = [dbuf EXCEPT ![t] = NULL]
               /\ lastdrop' = <<dbuf[t]>> \o SelectSeq(lastdrop, LAMBDA x : x # dbuf[t])
               /\ UNCHANGED <<held, halted, ngets>>

FlagValues == {B_VALID, B_VALID + B_DIRTY}

ListNext ==
    \/ \E t \in Threads, blk \in Blocks : Get(t, 0, blk)
    \/ \E t \in Threads, b \in BufIdx, f \in FlagValues : SetFlags(t, b, f)
    \/ \E t \in Threads, b \in BufIdx : DropDec(t, b)
    \/ \E t \in Threads : DropCheck(t)
    \/ \E t \in Threads : DropRelease(t)

----------------------------------------------------------------------------
(***************************************************************************)
(* push_cli / pop_cli: kernel/src/lock.rs:211-233 (the same text is in     *)
(* kernel/src/spinlock.rs:76-98)                                           *)
(***************************************************************************)
\* CPUs of the machine
NCPU == 2
\* nesting depth of push_cli followed in a run
MaxDepth == 3

CPUs == 1..NCPU

\* A CPU as main() leaves it: interrupts off (entry code runs with IF
\* clear), num_cli 0, int_enabled false (CpuShared::zero).
\*   IF           EFLAGS.IF of the CPU
\*   num_cli      Cpu.num_cli
\*   int_enabled  Cpu.int_enabled
\*   pc           "run", or "pushing" between push_cli's read_eflags and cli
\*   eflags_if    the IF bit of the local eflags of the push_cli in progress
\*   in_intr      an interrupt handler is running on the CPU
\*   tf_if        the IF bit of the eflags the interrupt pushed (iret pops it)
\*   hdepth       push_cli calls of the running handler not yet popped
\*   outer        history: the IF seen by each push_cli not yet popped
\*   deepest      history: deepest nesting since the last outermost push_cli
\*   panic        "" or the panic message
CliVarsInit ==
    cpu = [c \in CPUs |->
             [IF |-> FALSE, num_cli |-> 0, int_enabled |-> FALSE,
              pc |-> "run", eflags_if |-> FALSE,
              in_intr |-> FALSE, tf_if |-> FALSE, hdepth |-> 0,
              outer |-> <<>>, deepest |-> 0, panic |-> ""]]

\* push_cli that records IF on every push, not only the outermost one
push_cli_every(r, e) ==
    [r EXCEPT !.IF = FALSE,
              !.int_enabled = e,
              !.num_cli = @ + 1,
              !.deepest = IF r.num_cli = 0 THEN 1 ELSE IF r.num_cli + 1 > @ THEN r.num_cli + 1 ELSE @,
              !.outer = Append(@, e)]

\* push_cli after its read_eflags: cli, record IF on the outermost push, count.
\* e is the IF bit of the eflags read.
push_cli(r, e) ==
    [r EXCEPT !.IF = FALSE,
              !.int_enabled = IF r.num_cli = 0 THEN e ELSE @,
              !.num_cli = @ + 1,
              !.deepest = IF r.num_cli = 0 THEN 1 ELSE IF r.num_cli + 1 > @ THEN r.num_cli + 1 ELSE @,
              !.outer = Append(@, e)]

\* pop_cli without its two checks
pop_cli_unchecked(r) ==
    [r EXCEPT !.num_cli = @ - 1,
              !.IF = (r.num_cli - 1 = 0 /\ r.int_enabled),
              !.outer = SubSeq(@, 1, Len(@) - 1)]

\* pop_cli: both panics (the panic handler clears IF), then the decrement and
\* the conditional sti.
pop_cli(r) ==
    IF r.IF THEN [r EXCEPT !.panic = "pop_cli - interruptible", !.IF = FALSE]
    ELSE IF r.num_cli = 0 THEN [r EXCEPT !.panic = "pop_cli: num_cli zero"]
    ELSE [r EXCEPT !.num_cli = @ - 1,
                   !.IF = (r.num_cli - 1 = 0 /\ r.int_enabled),
                   !.outer = SubSeq(@, 1, Len(@) - 1)]

Running(c) == cpu[c].panic = ""

\* thread context, push_cli line 215: let eflags = x86::read_eflags()
PushCliRead(c) ==
    /\ Running(c) /\ ~cpu[c].in_intr /\ cpu[c].pc = "run"
    /\ cpu[c].num_cli < MaxDepth
    /\ cpu' = [cpu EXCEPT ![c].pc = "pushing", ![c].eflags_if = cpu[c].IF]
    /\ UNCHANGED notCli

\* thread context, push_cli lines 216-220
PushCliRest(c) ==
    /\ Running(c) /\ ~cpu[c].in_intr /\ cpu[c].pc = "pushing"
    /\ cpu' = [cpu EXCEPT ![c] = [push_cli(@, @.eflags_if) EXCEPT !.pc = "run"]]
    /\ UNCHANGED notCli

\* thread context, pop_cli
PopCli(c) ==
    /\ Running(c) /\ ~cpu[c].in_intr /\ cpu[c].pc = "run"
    /\ cpu' = [cpu EXCEPT ![c] = pop_cli(@)]
    /\ UNCHANGED notCli

\* x86::sti() outside any push_cli section: scheduler(), proc.rs:451
Sti(c) ==
    /\ Running(c) /\ ~cpu[c].in_intr /\ cpu[c].pc = "run"
    /\ cpu[c].num_cli = 0 /\ ~cpu[c].IF
    /\ cpu' = [cpu EXCEPT ![c].IF = TRUE]
    /\ UNCHANGED notCli

\* the kernel panics on the CPU, anywhere: the panic handler's x86::cli()
\* (main.rs:165), and the CPU goes no further
Panic(c) ==
    /\ Running(c)
    /\ cpu' = [cpu EXCEPT ![c].IF = FALSE, ![c].panic = "panic"]
    /\ UNCHANGED notCli

\* An interrupt is taken (IF set): the gate clears IF, the old eflags are in
\* the trap frame (trap.rs:71-108, interrupt gates of trap::init).
IntrEnter(c) ==
    /\ Running(c) /\ ~cpu[c].in_intr /\ cpu[c].IF
    /\ cpu' = [cpu EXCEPT ![c].in_intr = TRUE, ![c].tf_if = TRUE, ![c].IF = FALSE]
    /\ UNCHANGED notCli

\* The handler takes a spinlock: push_cli, whole (nothing can preempt it).
IntrPushCli(c) ==
    /\ Running(c) /\ cpu[c].in_intr
    /\ cpu[c].num_cli < MaxDepth
    /\ cpu' = [cpu EXCEPT ![c] = [push_cli(@, @.IF) EXCEPT !.hdepth = @ + 1]]
    /\ UNCHANGED notCli

\* The handler releases a spinlock: pop_cli.
IntrPopCli(c) ==
    /\ Running(c) /\ cpu[c].in_intr /\ cpu[c].hdepth > 0
    /\ cpu' = [cpu EXCEPT ![c] = [pop_cli(@) EXCEPT !.hdepth = @ - 1]]
    /\ UNCHANGED notCli

\* trapret's iret: the handler has released its locks; eflags are popped.
Iret(c) ==
    /\ Running(c) /\ cpu[c].in_intr /\ cpu[c].hdepth = 0
    /\ cpu' = [cpu EXCEPT ![c].in_intr = FALSE, ![c].IF = cpu[c].tf_if]
    /\ UNCHANGED notCli

CliNext ==
    \/ \E c \in CPUs : PushCliRead(c)
    \/ \E c \in CPUs : PushCliRest(c)
    \/ \E c \in CPUs : PopCli(c)
    \/ \E c \in CPUs : Sti(c)
    \/ \E c \in CPUs : Panic(c)
    \/ \E c \in CPUs : IntrEnter(c)
    \/ \E c \in CPUs : IntrPushCli(c)
    \/ \E c \in CPUs : IntrPopCli(c)
    \/ \E c \in CPUs : Iret(c)

----------------------------------------------------------------------------
(***************************************************************************)
(* Map buffer cache and IDE driver: kernel/src/fs/bcache.rs,               *)
(* kernel/src/fs/ide.rs; sleep/wakeup as section 4.5 of the specification  *)
(* describes them (proc::sleep and proc::wakeup are called by ide.rs but   *)
(* defined nowhere in the sources).                                        *)
(*                                                                         *)
(* Kernel thread t runs on CPU t.  The IDE interrupt is routed to the last *)
(* CPU (ide::init: ioapic::enable(IRQ_IDE, last_cpu)); the thread of that  *)
(* CPU stands still while a trap or ide_intr runs there, and a trap is     *)
(* taken only while that CPU holds no spinlock (push_cli).                 *)
(* A critical section that runs under one spinlock without blocking        *)
(* (Bcache::get, Bcache::put, the boolean of a SleepLock) is one step.     *)
(***************************************************************************)
\* kernel threads that use the cache
NProc == 2
\* disk blocks in play
NBlocks == 2
\* heap cells a Buf can be allocated in
NCells == 2
\* payload values 0..MaxData
MaxData == 1
\* bcache::read calls a thread makes in a run
MaxReads == 2
\* requests the IDE queue holds in a run
MaxQueue == 3

Procs == 1..NProc
IntrCpu == NProc
Devs == {0}
IdeBlocks == 0..(NBlocks - 1)
Keys == Devs \X IdeBlocks
Cells == 1..NCells
DataVals == 0..MaxData

FREE == -1
INTR == 0
T_IRQ0 == 32
IRQ_IDE == 14

\* Buf::zero inside SleepMutex::new: an unlocked, zeroed buffer
BufZero == [live |-> FALSE, dev |-> 0, block_no |-> 0, flags |-> 0, data |-> 0,
            locked |-> FALSE]

NoReq == [cmd |-> "none", dev |-> 0, block_no |-> 0, data |-> NULL,
          flags |-> NULL, wait_chan |-> NULL, by |-> "none", status |-> 0]

\* bits of the status register 0x1F7
IDE_DRDY == 64
IDE_DF == 32
IDE_ERR == 1
\* what the status register can hold once the drive is ready (BSY clear,
\* DRDY set)
DriveStatuses == {IDE_DRDY, IDE_DRDY + IDE_ERR, IDE_DRDY + IDE_DF}

\* The disk holds payload 1 in every block (a fresh Buf holds 0).
IdeVarsInit ==
    /\ cache = [k \in Keys |-> [ref_cnt |-> 0, buf |-> NULL]]
    /\ bufs = [a \in Cells |-> BufZero]
    /\ ideq = <<>>
    /\ running = FALSE
    /\ ideLock = FREE
    /\ drive = [cmd |-> "none", sector |-> 0, dev |-> 0, starts |-> 0]
    /\ disk = [b \in IdeBlocks |-> 1]
    /\ ptLock = FREE
    /\ pstate = [t \in Procs |-> "Running"]
    /\ pchan = [t \in Procs |-> NULL]
    /\ tpc = [t \in Procs |-> "idle"]
    /\ tbuf = [t \in Procs |-> NULL]
    /\ tfn = [t \in Procs |-> "none"]
    /\ spos = [t \in Procs |-> 0]
    /\ isr = 0
    /\ hpc = "none"
    /\ hreq = NoReq
    /\ ihalted = ""
    /\ nreads = [t \in Procs |-> 0]
    /\ wakes = [t \in Procs |-> 0]
    /\ wpay = [t \in Procs |-> 0]

\* Flags::valid, Flags::dirty and their setters, on the flags byte
flag_valid(f) == (f \div B_VALID) % 2 = 1
flag_dirty(f) == (f \div B_DIRTY) % 2 = 1
set_valid(f, v) == IF v THEN (IF flag_valid(f) THEN f ELSE f + B_VALID)
                        ELSE (IF flag_valid(f) THEN f - B_VALID ELSE f)
set_dirty(f, v) == IF v THEN (IF flag_dirty(f) THEN f ELSE f + B_DIRTY)
                        ELSE (IF flag_dirty(f) THEN f - B_DIRTY ELSE f)

\* Bcache::get: [cache, bufs, buf] with a fresh Buf in heap cell a on a miss
bcache_get(c, bs, key, a) ==
    IF c[key].buf # NULL
    THEN [cache |-> [c EXCEPT ![key].ref_cnt = @ + 1], bufs |-> bs,
          buf |-> c[key].buf]
    ELSE [cache |-> [c EXCEPT ![key] = [ref_cnt |-> 1, buf |-> a]],
          bufs |-> [bs EXCEPT ![a] = [BufZero EXCEPT !.live = TRUE,
                                                     !.dev = key[1],
                                                     !.block_no = key[2]]],
          buf |-> a]

\* Bcache::put: [cache, bufs, panic]; at count 0 the Box is dropped and the
\* entry removed (what a freed cell holds is not kept: nothing reads it)
bcache_put(c, bs, key) ==
    IF c[key].buf = NULL
    THEN [cache |-> c, bufs |-> bs, panic |-> "Bcache::put: no entry"]
    ELSE IF c[key].ref_cnt - 1 = 0
    THEN [cache |-> [c EXCEPT ![key] = [ref_cnt |-> 0, buf |-> NULL]],
          bufs |-> [bs EXCEPT ![c[key].buf] = BufZero], panic |-> ""]
    ELSE [cache |-> [c EXCEPT ![key].ref_cnt = @ - 1], bufs |-> bs, panic |-> ""]

\* IdeQueue::start on the head of q: the task-file registers are programmed
\* (0x1F2..0x1F6); a Write puts its command in the command register 0x1F7
\* and streams the payload, which the drive stores; a Read writes its
\* command byte to 0x1F0, the data port, so the command register is never
\* written and the drive executes nothing.
start(q, drv, dsk, bs) ==
    LET req == Head(q)
        regs == [drv EXCEPT !.sector = req.block_no, !.dev = req.dev % 2,
                            !.starts = @ + 1]
    IN  IF req.cmd = "Write"
        THEN [drive |-> [regs EXCEPT !.cmd = "write"],
              disk |-> [dsk EXCEPT ![req.block_no] = bs[req.data].data]]
        ELSE [drive |-> [regs EXCEPT !.cmd = "none"], disk |-> dsk]

\* IdeQueue::append that starts the drive whatever the queue holds
append_start_always(q, run, drv, dsk, bs, req) ==
    [que |-> Append(q, req), running |-> TRUE] @@ start(Append(q, req), drv, dsk, bs)

\* IdeQueue::append: push_back, start the drive if the queue was empty
append(q, run, drv, dsk, bs, req) ==
    LET q2 == Append(q, req)
    IN  IF Len(q2) = 1
        THEN [que |-> q2, running |-> TRUE] @@ start(q2, drv, dsk, bs)
        ELSE [que |-> q2, running |-> run, drive |-> drv, disk |-> dsk]

\* wait(check_err) once the drive is ready with status r: TRUE for Some(()),
\* FALSE for None
wait(check_err, r) ==
    ~(check_err /\ ((r \div IDE_DF) % 2 = 1 \/ (r \div IDE_ERR) % 2 = 1))

\* what insl(0x1F0) can drain: the sector a read command fetched, or, with
\* no read command executed, whatever the data port returns
insl(drv, dsk) ==
    IF drv.cmd = "read" THEN {dsk[drv.sector]} ELSE DataVals

\* the Request read_from_disk builds (ide.rs:181-188)
read_request(bs, a) ==
    [cmd |-> "Read", dev |-> bs[a].dev, block_no |-> bs[a].block_no,
     data |-> a, flags |-> a, wait_chan |-> a, by |-> "read_from_disk",
     status |-> 0]

\* the Request write_to_disk builds (ide.rs:203-210): its cmd is Command::Read
write_request(bs, a) ==
    [cmd |-> "Read", dev |-> bs[a].dev, block_no |-> bs[a].block_no,
     data |-> a, flags |-> a, wait_chan |-> a, by |-> "write_to_disk",
     status |-> 0]

\* wakeup(chan): every process Sleeping on chan becomes Runnable
wakeup_any(ps, pc, chan) ==
    [t \in Procs |-> IF ps[t] = "Sleeping" THEN "Runnable" ELSE ps[t]]

wakeup(ps, pc, chan) ==
    [t \in Procs |-> IF ps[t] = "Sleeping" /\ pc[t] = chan THEN "Runnable" ELSE ps[t]]

\* sleep(chan, lk) takes the caller's lock second
sleep_prog_release_first == <<"release_lk", "acquire_ptable", "record_sleeping">>

\* sleep(chan, lk): process-table lock, release lk, Sleeping on chan and sched
sleep_prog == <<"acquire_ptable", "release_lk", "record_sleeping">>

\* trap(): what the common handler does for a vector: LAPIC EOI, no dispatch
trap(trap_no) == [eoi |-> TRUE, call |-> "none"]

CanRun(t) == ihalted = "" /\ (t = IntrCpu => (hpc = "none" /\ isr = 0))

\* interrupts are enabled on the interrupt CPU: no trap in progress and its
\* thread holds no spinlock
IntEnabled ==
    /\ ihalted = "" /\ hpc = "none" /\ isr = 0
    /\ ideLock # IntrCpu /\ ptLock # IntrCpu

\* bcache::read line 145: BCACHE.lock().get(dev, block_no)
ReadGet(t, key) ==
    /\ CanRun(t) /\ tpc[t] = "idle" /\ nreads[t] < MaxReads
    /\ \E a \in Cells :
         /\ IF cache[key].buf # NULL THEN a = cache[key].buf ELSE ~bufs[a].live
         /\ LET r == bcache_get(cache, bufs, key, a)
            IN  /\ cache' = r.cache
                /\ bufs' = r.bufs
                /\ tbuf' = [tbuf EXCEPT ![t] = r.buf]
    /\ tpc' = [tpc EXCEPT ![t] = "lock"]
    /\ nreads' = [nreads EXCEPT ![t] = @ + 1]
    /\ UNCHANGED <<ideq, running, ideLock, drive, disk, ptLock, pstate,
                   pchan, tfn, spos, isr, hpc, hreq, ihalted, wakes, wpay>>
    /\ UNCHANGED notIde

\* bcache::read lines 146-147: b.lock() is SleepLock::acquire, which calls
\* sleep() = todo!() when the lock is taken; then the test of VALID
ReadLock(t) ==
    /\ CanRun(t) /\ tpc[t] = "lock"
    /\ IF bufs[tbuf[t]].locked
       THEN /\ ihalted' = "not yet implemented"
            /\ UNCHANGED <<bufs, tpc, tfn>>
       ELSE /\ bufs' = [bufs EXCEPT ![tbuf[t]].locked = TRUE]
            /\ IF flag_valid(bufs[tbuf[t]].flags)
               THEN tpc' = [tpc EXCEPT ![t] = "have"] /\ UNCHANGED tfn
               ELSE /\ tpc' = [tpc EXCEPT ![t] = "rfd_lock"]
                    /\ tfn' = [tfn EXCEPT ![t] = "read_from_disk"]
            /\ UNCHANGED ihalted
    /\ UNCHANGED <<cache, ideq, running, ideLock, drive, disk, ptLock,
                   pstate, pchan, tbuf, spos, isr, hpc, hreq, nreads, wakes,
                   wpay>>
    /\ UNCHANGED notIde

\* read_from_disk lines 180-189: IDE_QUEUE.lock(), append the request
RfdAppend(t) ==
    /\ CanRun(t) /\ tpc[t] = "rfd_lock" /\ ideLock = FREE
    /\ Len(ideq) < MaxQueue
    /\ LET r == append(ideq, running, drive, disk, bufs, read_request(bufs, tbuf[t]))
       IN  /\ ideq' = r.que /\ running' = r.running
           /\ drive' = r.drive /\ disk' = r.disk
    /\ ideLock' = t
    /\ tpc' = [tpc EXCEPT ![t] = "rfd_loop"]
    /\ UNCHANGED <<cache, bufs, ptLock, pstate, pchan, tbuf, tfn, spos, isr,
                   hpc, hreq, ihalted, nreads, wakes, wpay>>
    /\ UNCHANGED notIde

\* read_from_disk lines 192-195: while !valid { sleep }, then the guard drops
RfdLoop(t) ==
    /\ CanRun(t) /\ tpc[t] = "rfd_loop"
    /\ IF flag_valid(bufs[tbuf[t]].flags)
       THEN /\ ideLock' = FREE
            /\ tpc' = [tpc EXCEPT ![t] = "have"]
            /\ tfn' = [tfn EXCEPT ![t] = "none"]
       ELSE /\ tpc' = [tpc EXCEPT ![t] = "sleep"]
            /\ UNCHANGED <<ideLock, tfn>>
    /\ wakes' = [wakes EXCEPT ![t] = 0]
    /\ UNCHANGED <<cache, bufs, ideq, running, drive, disk, ptLock, pstate, pchan,
                   tbuf, spos, isr, hpc, hreq, ihalted, nreads, wpay>>
    /\ UNCHANGED notIde

\* sleep: acquire the process-table lock
SleepAcquirePtable(t) ==
    /\ CanRun(t) /\ tpc[t] = "sleep"
    /\ sleep_prog[spos[t] + 1] = "acquire_ptable"
    /\ ptLock = FREE
    /\ ptLock' = t
    /\ spos' = [spos EXCEPT ![t] = @ + 1]
    /\ UNCHANGED <<cache, bufs, ideq, running, ideLock, drive, disk, pstate,
                   pchan, tpc, tbuf, tfn, isr, hpc, hreq, ihalted, nreads,
                   wakes, wpay>>
    /\ UNCHANGED notIde

\* sleep: release lk (the IDE_QUEUE guard the caller passed)
SleepReleaseLk(t) ==
    /\ CanRun(t) /\ tpc[t] = "sleep"
    /\ sleep_prog[spos[t] + 1] = "release_lk"
    /\ ideLock' = FREE
    /\ spos' = [spos EXCEPT ![t] = @ + 1]
    /\ UNCHANGED <<cache, bufs, ideq, running, drive, disk, ptLock, pstate,
                   pchan, tpc, tbuf, tfn, isr, hpc, hreq, ihalted, nreads,
                   wakes, wpay>>
    /\ UNCHANGED notIde

\* sleep: chan and Sleeping are recorded, switch to the scheduler, which
\* lets go of the process-table lock
SleepRecord(t) ==
    /\ CanRun(t) /\ tpc[t] = "sleep"
    /\ sleep_prog[spos[t] + 1] = "record_sleeping"
    /\ ptLock = t
    /\ pchan' = [pchan EXCEPT ![t] = tbuf[t]]
    /\ pstate' = [pstate EXCEPT ![t] = "Sleeping"]
    /\ ptLock' = FREE
    /\ spos' = [spos EXCEPT ![t] = 0]
    /\ tpc' = [tpc EXCEPT ![t] = "asleep"]
    /\ UNCHANGED <<cache, bufs, ideq, running, ideLock, drive, disk, tbuf,
                   tfn, isr, hpc, hreq, ihalted, nreads, wakes, wpay>>
    /\ UNCHANGED notIde

\* scheduler: a Runnable process is picked under the process-table lock and
\* switched to
Resume(t) ==
    /\ CanRun(t) /\ tpc[t] = "asleep" /\ pstate[t] = "Runnable"
    /\ ptLock = FREE
    /\ pstate' = [pstate EXCEPT ![t] = "Running"]
    /\ pchan' = [pchan EXCEPT ![t] = NULL]
    /\ tpc' = [tpc EXCEPT ![t] = "reacq"]
    /\ UNCHANGED <<cache, bufs, ideq, running, ideLock, drive, disk, ptLock,
                   tbuf, tfn, spos, isr, hpc, hreq, ihalted, nreads,
                   wakes, wpay>>
    /\ UNCHANGED notIde

\* sleep: on return, lk is acquired again; back to the caller's loop
SleepReacquire(t) ==
    /\ CanRun(t) /\ tpc[t] = "reacq" /\ ideLock = FREE
    /\ ideLock' = t
    /\ tpc' = [tpc EXCEPT ![t] = IF tfn[t] = "read_from_disk" THEN "rfd_loop"
                                                               ELSE "wr_loop"]
    /\ UNCHANGED <<cache, bufs, ideq, running, drive, disk, ptLock, pstate,
                   pchan, tbuf, tfn, spos, isr, hpc, hreq, ihalted, nreads,
                   wakes, wpay>>
    /\ UNCHANGED notIde

\* the holder of a BufLocked changes the payload and sets DIRTY
Modify(t, v) ==
    /\ CanRun(t) /\ tpc[t] = "have"
    /\ bufs' = [bufs EXCEPT ![tbuf[t]].data = v,
                            ![tbuf[t]].flags = set_dirty(@, TRUE)]
    /\ UNCHANGED <<cache, ideq, running, ideLock, drive, disk, ptLock,
                   pstate, pchan, tpc, tbuf, tfn, spos, isr, hpc, hreq,
                   ihalted, nreads, wakes, wpay>>
    /\ UNCHANGED notIde

\* Buf::write line 83: if dirty, write_to_disk
BufWrite(t) ==
    /\ CanRun(t) /\ tpc[t] = "have"
    /\ wpay' = [wpay EXCEPT ![t] = bufs[tbuf[t]].data]
    /\ IF flag_dirty(bufs[tbuf[t]].flags)
       THEN /\ tpc' = [tpc EXCEPT ![t] = "wr_lock"]
            /\ tfn' = [tfn EXCEPT ![t] = "write_to_disk"]
       ELSE /\ tpc' = [tpc EXCEPT ![t] = "wr_ret"]
            /\ UNCHANGED tfn
    /\ UNCHANGED <<cache, bufs, ideq, running, ideLock, drive, disk, ptLock,
                   pstate, pchan, tbuf, spos, isr, hpc, hreq, ihalted,
                   nreads, wakes>>
    /\ UNCHANGED notIde

\* write_to_disk lines 202-211: IDE_QUEUE.lock(), append the request
WrAppend(t) ==
    /\ CanRun(t) /\ tpc[t] = "wr_lock" /\ ideLock = FREE
    /\ Len(ideq) < MaxQueue
    /\ LET r == append(ideq, running, drive, disk, bufs, write_request(bufs, tbuf[t]))
       IN  /\ ideq' = r.que /\ running' = r.running
           /\ drive' = r.drive /\ disk' = r.disk
    /\ ideLock' = t
    /\ tpc' = [tpc EXCEPT ![t] = "wr_loop"]
    /\ UNCHANGED <<cache, bufs, ptLock, pstate, pchan, tbuf, tfn, spos, isr,
                   hpc, hreq, ihalted, nreads, wakes, wpay>>
    /\ UNCHANGED notIde

\* write_to_disk lines 214-217: while dirty { sleep }, then the guard drops
WrLoop(t) ==
    /\ CanRun(t) /\ tpc[t] = "wr_loop"
    /\ IF ~flag_dirty(bufs[tbuf[t]].flags)
       THEN /\ ideLock' = FREE
            /\ tpc' = [tpc EXCEPT ![t] = "wr_ret"]
            /\ tfn' = [tfn EXCEPT ![t] = "none"]
       ELSE /\ tpc' = [tpc EXCEPT ![t] = "sleep"]
            /\ UNCHANGED <<ideLock, tfn>>
    /\ wakes' = [wakes EXCEPT ![t] = 0]
    /\ UNCHANGED <<cache, bufs, ideq, running, drive, disk, ptLock, pstate, pchan,
                   tbuf, spos, isr, hpc, hreq, ihalted, nreads, wpay>>
    /\ UNCHANGED notIde

\* Buf::write line 86: debug_assert!(!dirty), return
WrRet(t) ==
    /\ CanRun(t) /\ tpc[t] = "wr_ret"
    /\ IF flag_dirty(bufs[tbuf[t]].flags)
       THEN ihalted' = "assertion failed: !self.flags.dirty()" /\ UNCHANGED tpc
       ELSE tpc' = [tpc EXCEPT ![t] = "have"] /\ UNCHANGED ihalted
    /\ wpay' = [wpay EXCEPT ![t] = 0]
    /\ UNCHANGED <<cache, bufs, ideq, running, ideLock, drive, disk, ptLock,
                   pstate, pchan, tbuf, tfn, spos, isr, hpc, hreq, nreads,
                   wakes>>
    /\ UNCHANGED notIde

\* BufLocked::drop: BCACHE.lock().put(self.dev, self.block_no)
Put(t) ==
    /\ CanRun(t) /\ tpc[t] = "have"
    /\ LET r == bcache_put(cache, bufs, <<bufs[tbuf[t]].dev, bufs[tbuf[t]].block_no>>)
       IN  /\ cache' = r.cache
           /\ bufs' = r.bufs
           /\ ihalted' = r.panic
           /\ tpc' = [tpc EXCEPT ![t] = IF r.panic = "" THEN "guard_drop" ELSE @]
    /\ UNCHANGED <<ideq, running, ideLock, drive, disk, ptLock, pstate,
                   pchan, tbuf, tfn, spos, isr, hpc, hreq, nreads, wakes,
                   wpay>>
    /\ UNCHANGED notIde

\* then the guard field drops: SleepLock::release stores false in the mutex,
\* at its address, whether or not put has freed it
GuardDrop(t) ==
    /\ CanRun(t) /\ tpc[t] = "guard_drop"
    /\ bufs' = [bufs EXCEPT ![tbuf[t]].locked = FALSE]
    /\ tbuf' = [tbuf EXCEPT ![t] = NULL]
    /\ tfn' = [tfn EXCEPT ![t] = "none"]
    /\ tpc' = [tpc EXCEPT ![t] = "idle"]
    /\ UNCHANGED <<cache, ideq, running, ideLock, drive, disk, ptLock,
                   pstate, pchan, spos, isr, hpc, hreq, ihalted, nreads,
                   wakes, wpay>>
    /\ UNCHANGED notIde

\* an interrupt is taken on the interrupt CPU
IntrArrive(trap_no) ==
    /\ IntEnabled
    /\ isr' = trap_no
    /\ UNCHANGED <<cache, bufs, ideq, running, ideLock, drive, disk, ptLock,
                   pstate, pchan, tpc, tbuf, tfn, spos, hpc, hreq, ihalted,
                   nreads, wakes, wpay>>
    /\ UNCHANGED notIde

\* alltraps -> trap(tf) -> trapret
Trap ==
    /\ ihalted = "" /\ isr # 0
    /\ isr' = 0
    /\ hpc' = IF trap(isr).call = "ide_intr" THEN "lock" ELSE hpc
    /\ UNCHANGED <<cache, bufs, ideq, running, ideLock, drive, disk, ptLock,
                   pstate, pchan, tpc, tbuf, tfn, spos, hreq, ihalted,
                   nreads, wakes, wpay>>
    /\ UNCHANGED notIde

\* ide_intr is entered (it is an exported entry point for the IDE vector)
IdeIntrEnter ==
    /\ IntEnabled
    /\ hpc' = "lock"
    /\ UNCHANGED <<cache, bufs, ideq, running, ideLock, drive, disk, ptLock,
                   pstate, pchan, tpc, tbuf, tfn, spos, isr, hreq, ihalted,
                   nreads, wakes, wpay>>
    /\ UNCHANGED notIde

\* ide_intr: IDE_QUEUE.lock(); on an empty queue return; else notify_ready
\* up to its call of wakeup (lines 119-130): the payload is drained for a
\* Read whose wait(true) is Some, the flags are set either way
IdeIntrLock ==
    /\ ihalted = "" /\ hpc = "lock" /\ ideLock = FREE
    /\ IF ideq = <<>>
       THEN /\ hpc' = "none"
            /\ UNCHANGED <<ideLock, running, ideq, bufs, hreq, drive>>
       ELSE LET req == Head(ideq)
            IN  /\ ideLock' = INTR
                /\ running' = FALSE
                /\ ideq' = Tail(ideq)
                /\ hpc' = "wakeup"
                /\ drive' = [drive EXCEPT !.starts = 0]
                /\ \E r \in DriveStatuses :
                     /\ hreq' = [req EXCEPT !.status = r]
                     /\ \E d \in insl(drive, disk) :
                          bufs' = [bufs EXCEPT
                             ![req.data].data =
                                 IF req.cmd = "Read" /\ wait(TRUE, r) THEN d ELSE @,
                             ![req.flags].flags = set_valid(set_dirty(@, FALSE), TRUE)]
    /\ UNCHANGED <<cache, disk, ptLock, pstate, pchan, tpc, tbuf, tfn,
                   spos, isr, ihalted, nreads, wakes, wpay>>
    /\ UNCHANGED notIde

\* notify_ready line 131: proc::wakeup(req.wait_chan), under the
\* process-table lock
IdeIntrWakeup ==
    /\ ihalted = "" /\ hpc = "wakeup" /\ ptLock = FREE
    /\ pstate' = wakeup(pstate, pchan, hreq.wait_chan)
    /\ wakes' = [t \in Procs |->
                   IF tpc[t] \in {"sleep", "asleep"} /\ tbuf[t] = hreq.wait_chan
                   THEN 1 ELSE wakes[t]]
    /\ hpc' = "finish"
    /\ UNCHANGED <<cache, bufs, ideq, running, ideLock, drive, disk, ptLock,
                   pchan, tpc, tbuf, tfn, spos, isr, hreq, ihalted, nreads,
                   wpay>>
    /\ UNCHANGED notIde

\* notify_ready lines 134-136: start the next request; the guard drops
IdeIntrFinish ==
    /\ ihalted = "" /\ hpc = "finish"
    /\ IF ideq # <<>>
       THEN LET r == start(ideq, drive, disk, bufs)
            IN  drive' = r.drive /\ disk' = r.disk /\ running' = TRUE
       ELSE UNCHANGED <<drive, disk, running>>
    /\ ideLock' = FREE
    /\ hreq' = NoReq
    /\ hpc' = "none"
    /\ UNCHANGED <<cache, bufs, ideq, ptLock, pstate, pchan, tpc, tbuf, tfn,
                   spos, isr, ihalted, nreads, wakes, wpay>>
    /\ UNCHANGED notIde

IdeNext ==
    \/ \E t \in Procs, k \in Keys : ReadGet(t, k)
    \/ \E t \in Procs : ReadLock(t)
    \/ \E t \in Procs : RfdAppend(t)
    \/ \E t \in Procs : RfdLoop(t)
    \/ \E t \in Procs : SleepAcquirePtable(t)
    \/ \E t \in Procs : SleepReleaseLk(t)
    \/ \E t \in Procs : SleepRecord(t)
    \/ \E t \in Procs : Resume(t)
    \/ \E t \in Procs : SleepReacquire(t)
    \/ \E t \in Procs, v \in DataVals : Modify(t, v)
    \/ \E t \in Procs : BufWrite(t)
    \/ \E t \in Procs : WrAppend(t)
    \/ \E t \in Procs : WrLoop(t)
    \/ \E t \in Procs : WrRet(t)
    \/ \E t \in Procs : Put(t)
    \/ \E t \in Procs : GuardDrop(t)
    \/ IntrArrive(T_IRQ0 + IRQ_IDE)
    \/ Trap
    \/ IdeIntrEnter
    \/ IdeIntrLock
    \/ IdeIntrWakeup
    \/ IdeIntrFinish

----------------------------------------------------------------------------
(***************************************************************************)
(* Inode cache.  kernel/src/fs.rs keeps the Inodes in an arena on the used *)
(* and unused lists with a reference count each; kernel/src/fs/inode.rs    *)
(* keeps a map from (dev, inum) to a Weak<Inode> and hands out Arc<Inode>. *)
(* A run follows one of the two (idraft).                                  *)
(***************************************************************************)
\* cells an Inode can be in (N_INODE is 50 in fs.rs)
N_INODE == 2
\* inode numbers 1..MaxInum on the root device
MaxInum == 3
\* InodeRefs a thread holds at a time
MaxIRefs == 2
\* Icache::get calls a thread makes in a run
MaxIGets == 3

ROOT_DEV == 1
INodes == 0..(N_INODE - 1)
IKeys == {ROOT_DEV} \X (1..MaxInum)

\* Inode::zero of fs.rs (InodeBody::zero: valid false, nlink 0) and the
\* chaining of Icache::init
IcListInit ==
    /\ iarena = [i \in INodes |->
                   [prev |-> IF i > 0 THEN i - 1 ELSE NULL,
                    next |-> IF i < N_INODE - 1 THEN i + 1 ELSE NULL,
                    dev |-> 0, inum |-> 0, ref_cnt |-> 0,
                    locked |-> FALSE, valid |-> FALSE, nlink |-> 0]]
    /\ iused = NULL
    /\ iunused = 0

\* Icache::new of fs/inode.rs: an empty map; no Arc allocated
IcMapInit ==
    /\ imap = [k \in IKeys |-> NULL]
    /\ iobj = [o \in INodes |-> [state |-> "free", dev |-> 0, inum |-> 0,
                                 strong |-> 0, weak |-> FALSE,
                                 valid |-> FALSE, nlink |-> 0]]

IcVarsInit ==
    /\ idraft \in {"list", "map"}
    /\ IcListInit
    /\ IcMapInit
    /\ ihold = [t \in Threads |-> [n \in INodes |-> 0]]
    /\ ipc = [t \in Threads |-> "idle"]
    /\ idrop = [t \in Threads |-> NULL]
    /\ ihalt = ""
    /\ igets = [t \in Threads |-> 0]

\* fs.rs Icache::search_cached: first Inode of the used list with the identity
RECURSIVE Icache_search_cached(_, _, _, _, _)
Icache_search_cached(a, p, dev, inum, fuel) ==
    IF p = NULL THEN NULL
    ELSE IF fuel = 0 THEN LOOP
    ELSE IF a[p].dev = dev /\ a[p].inum = inum THEN p
    ELSE Icache_search_cached(a, a[p].next, dev, inum, fuel - 1)

\* fs.rs Icache::take_unused, the unused list not empty: its head moves to the
\* front of the used list
Icache_take_unused(a, us, un) ==
    LET ip == un
        next == a[ip].next
        a1 == IF next # NULL THEN [a EXCEPT ![next].prev = NULL] ELSE a
        a2 == [a1 EXCEPT ![ip].next = us]
        a3 == IF us # NULL THEN [a2 EXCEPT ![us].prev = ip] ELSE a2
    IN  [arena |-> a3, used |-> ip, unused |-> next, node |-> ip]

\* fs/inode.rs Icache::get that never upgrades the Weak it finds
icache_get_no_upgrade(m, objs, key, o) ==
    LET old == m[key]
        o1 == IF old # NULL /\ old # o
              THEN [objs EXCEPT ![old] =
                      IF @.state = "dead"
                      THEN [@ EXCEPT !.state = "free", !.weak = FALSE]
                      ELSE [@ EXCEPT !.weak = FALSE]]
              ELSE objs
    IN  [map |-> [m EXCEPT ![key] = o],
         objs |-> [o1 EXCEPT ![o] = [state |-> "live", dev |-> key[1],
                                     inum |-> key[2], strong |-> 1,
                                     weak |-> TRUE, valid |-> FALSE,
                                     nlink |-> 0]],
         inode |-> o]

\* fs/inode.rs Icache::get: upgrade the Weak of the key (it upgrades while the
\* strong count is not 0); else a new Arc<Inode> in cell o, whose Weak
\* replaces the entry (the replaced Weak is dropped, which frees an Inode
\* already dropped)
icache_get(m, objs, key, o) ==
    IF m[key] # NULL /\ objs[m[key]].strong > 0
    THEN [map |-> m, objs |-> [objs EXCEPT ![m[key]].strong = @ + 1],
          inode |-> m[key]]
    ELSE icache_get_no_upgrade(m, objs, key, o)

IHeld(t) == LET RECURSIVE Sum(_)
                Sum(S) == IF S = {} THEN 0
                          ELSE LET n == CHOOSE x \in S : TRUE
                               IN  ihold[t][n] + Sum(S \ {n})
            IN  Sum(INodes)

ICanGet(t) ==
    /\ ihalt = "" /\ ipc[t] = "idle"
    /\ IHeld(t) < MaxIRefs /\ igets[t] < MaxIGets

\* fs.rs: ICACHE.lock().get(dev, inum)
IcListGet(t, key) ==
    /\ idraft = "list" /\ ICanGet(t)
    /\ igets' = [igets EXCEPT ![t] = @ + 1]
    /\ LET hit == Icache_search_cached(iarena, iused, key[1], key[2], N_INODE)
       IN  IF hit = LOOP
           THEN /\ ihalt' = "hang: search_cached"
                /\ UNCHANGED <<iarena, iused, iunused, ihold>>
           ELSE IF hit # NULL
           THEN /\ iarena' = [iarena EXCEPT ![hit].ref_cnt = fetch_add(@)]
                /\ ihold' = [ihold EXCEPT ![t][hit] = @ + 1]
                /\ UNCHANGED <<iused, iunused, ihalt>>
           ELSE IF iunused = NULL
           THEN /\ ihalt' = "inode::get: no inodes"
                /\ UNCHANGED <<iarena, iused, iunused, ihold>>
           ELSE IF iarena[iunused].prev # NULL
           THEN /\ ihalt' = "take_unused: assert_eq prev null"
                /\ UNCHANGED <<iarena, iused, iunused, ihold>>
           ELSE LET r == Icache_take_unused(iarena, iused, iunused)
                IN  /\ iarena' = [r.arena EXCEPT ![r.node].dev = key[1],
                                                 ![r.node].inum = key[2],
                                                 ![r.node].ref_cnt = fetch_add(0)]
                    /\ iused' = r.used
                    /\ iunused' = r.unused
                    /\ ihold' = [ihold EXCEPT ![t][r.node] = @ + 1]
                    /\ UNCHANGED ihalt
    /\ UNCHANGED <<idraft, imap, iobj, ipc, idrop>>
    /\ UNCHANGED notIc

\* fs.rs Inode::drop_ref: self.body.lock(), a SleepLock, whose acquire calls
\* sleep() = todo!() when the lock is taken
IcListDropRefLock(t, n) ==
    /\ idraft = "list" /\ ihalt = "" /\ ipc[t] = "idle"
    /\ ihold[t][n] > 0
    /\ ihold' = [ihold EXCEPT ![t][n] = @ - 1]
    /\ IF iarena[n].locked
       THEN /\ ihalt' = "not yet implemented"
            /\ UNCHANGED <<iarena, ipc, idrop>>
       ELSE /\ iarena' = [iarena EXCEPT ![n].locked = TRUE]
            /\ ipc' = [ipc EXCEPT ![t] = "drop_ref"]
            /\ idrop' = [idrop EXCEPT ![t] = n]
            /\ UNCHANGED ihalt
    /\ UNCHANGED <<idraft, iused, iunused, imap, iobj, igets>>
    /\ UNCHANGED notIc

\* fs.rs Inode::drop_ref after the lock: decrement; an Inode that is valid,
\* without links and without references runs into todo!(); the guard drops
IcListDropRef(t) ==
    /\ idraft = "list" /\ ihalt = "" /\ ipc[t] = "drop_ref"
    /\ LET n == idrop[t]
           cnt == fetch_sub(iarena[n].ref_cnt)
       IN  IF iarena[n].valid /\ iarena[n].nlink = 0 /\ cnt = 0
           THEN /\ ihalt' = "not yet implemented"
                /\ iarena' = [iarena EXCEPT ![n].ref_cnt = cnt, ![n].valid = FALSE]
                /\ UNCHANGED <<ipc, idrop>>
           ELSE /\ iarena' = [iarena EXCEPT ![n].ref_cnt = cnt, ![n].locked = FALSE]
                /\ ipc' = [ipc EXCEPT ![t] = "idle"]
                /\ idrop' = [idrop EXCEPT ![t] = NULL]
                /\ UNCHANGED ihalt
    /\ UNCHANGED <<idraft, iused, iunused, imap, iobj, ihold, igets>>
    /\ UNCHANGED notIc

\* fs/inode.rs: ICACHE.lock().get(dev, inum)
IcMapGet(t, key) ==
    /\ idraft = "map" /\ ICanGet(t)
    /\ igets' = [igets EXCEPT ![t] = @ + 1]
    /\ IF (imap[key] = NULL \/ iobj[imap[key]].strong = 0)
          /\ \A o \in INodes : iobj[o].state # "free"
       THEN /\ ihalt' = "alloc: out of memory"
            /\ UNCHANGED <<imap, iobj, ihold>>
       ELSE \E o \in INodes :
              /\ IF imap[key] # NULL /\ iobj[imap[key]].strong > 0
                 THEN o = imap[key] ELSE iobj[o].state = "free"
              /\ LET r == icache_get(imap, iobj, key, o)
                 IN  /\ imap' = r.map
                     /\ iobj' = r.objs
                     /\ ihold' = [ihold EXCEPT ![t][r.inode] = @ + 1]
              /\ UNCHANGED ihalt
    /\ UNCHANGED <<idraft, iarena, iused, iunused, ipc, idrop>>
    /\ UNCHANGED notIc

\* an InodeRef (Arc<Inode>) is dropped: the strong count goes down; the
\* thread that takes it to 0 goes on to drop the Inode
IcArcDrop(t, o) ==
    /\ idraft = "map" /\ ihalt = "" /\ ipc[t] = "idle"
    /\ ihold[t][o] > 0
    /\ ihold' = [ihold EXCEPT ![t][o] = @ - 1]
    /\ IF iobj[o].strong - 1 = 0
       THEN /\ iobj' = [iobj EXCEPT ![o].strong = 0, ![o].state = "dropping"]
            /\ ipc' = [ipc EXCEPT ![t] = "inode_drop"]
            /\ idrop' = [idrop EXCEPT ![t] = o]
       ELSE /\ iobj' = [iobj EXCEPT ![o].strong = @ - 1]
            /\ UNCHANGED <<ipc, idrop>>
    /\ UNCHANGED <<idraft, iarena, iused, iunused, imap, ihalt, igets>>
    /\ UNCHANGED notIc

\* fs/inode.rs Drop for Inode: a valid Inode without links runs into todo!();
\* then the cell is freed unless a Weak still points to it
IcInodeDrop(t) ==
    /\ idraft = "map" /\ ihalt = "" /\ ipc[t] = "inode_drop"
    /\ LET o == idrop[t]
       IN  IF iobj[o].valid /\ iobj[o].nlink = 0
           THEN /\ ihalt' = "not yet implemented"
                /\ iobj' = [iobj EXCEPT ![o].valid = FALSE]
                /\ UNCHANGED <<ipc, idrop>>
           ELSE /\ iobj' = [iobj EXCEPT ![o].state = IF iobj[o].weak THEN "dead" ELSE "free"]
                /\ ipc' = [ipc EXCEPT ![t] = "idle"]
                /\ idrop' = [idrop EXCEPT ![t] = NULL]
                /\ UNCHANGED ihalt
    /\ UNCHANGED <<idraft, iarena, iused, iunused, imap, ihold, igets>>
    /\ UNCHANGED notIc

IcNext ==
    \/ \E t \in Threads, k \in IKeys : IcListGet(t, k)
    \/ \E t \in Threads, n \in INodes : IcListDropRefLock(t, n)
    \/ \E t \in Threads : IcListDropRef(t)
    \/ \E t \in Threads, k \in IKeys : IcMapGet(t, k)
    \/ \E t \in Threads, o \in INodes : IcArcDrop(t, o)
    \/ \E t \in Threads : IcInodeDrop(t)

----------------------------------------------------------------------------
(***************************************************************************)
(* SpinLock: kernel/src/lock.rs:7-74 (the same text is in                  *)
(* kernel/src/spinlock.rs:27-74).  A CPU calls acquire and release in any  *)
(* order, matched or not; the loads and stores of the lock's two atomics   *)
(* are separate steps, the CPU-local push_cli / pop_cli go with the step   *)
(* next to them.                                                           *)
(***************************************************************************)
\* spinlocks in play
NLocks == 2

Locks == 1..NLocks

\* SpinLock::new, and every CPU outside acquire and release
SpinVarsInit ==
    /\ slock = [l \in Locks |-> [locked |-> FALSE, cpu |-> NULL]]
    /\ spc = [c \in CPUs |-> [pc |-> "idle", lk |-> NULL, r |-> FALSE]]
    /\ shold = [c \in CPUs |-> {}]

\* SpinLock::holding with the cpu comparison left out
holding_any_cpu(lk, locked, c) == locked

\* SpinLock::holding, lines 69-70: locked is the value its first load gave;
\* the second load is made only if that was true (&&)
holding(lk, locked, c) == locked /\ lk.cpu = c

\* a panic! on the CPU: the handler clears IF and loops (main.rs:162-166)
spin_panic(r, msg) == [r EXCEPT !.panic = msg, !.IF = FALSE]

SpinIdle(c) == Running(c) /\ ~cpu[c].in_intr /\ cpu[c].pc = "run" /\ spc[c].pc = "idle"

\* acquire lines 29-30: push_cli, then holding()'s push_cli and its load of
\* locked
AcquireCall(c, l) ==
    /\ SpinIdle(c)
    /\ cpu[c].num_cli + 1 < MaxDepth
    /\ cpu' = [cpu EXCEPT ![c] = push_cli(push_cli(@, @.IF), FALSE)]
    /\ spc' = [spc EXCEPT ![c] = [pc |-> "acq_assert", lk |-> l, r |-> slock[l].locked]]
    /\ UNCHANGED <<slock, shold>>
    /\ UNCHANGED notSpin

\* acquire line 30: the rest of holding() (load of cpu, pop_cli) and the assert
AcquireAssert(c) ==
    /\ Running(c) /\ spc[c].pc = "acq_assert"
    /\ LET l == spc[c].lk
           popped == pop_cli(cpu[c])
       IN IF holding(slock[l], spc[c].r, c)
          THEN /\ cpu' = [cpu EXCEPT ![c] = spin_panic(popped, "acquire")]
               /\ UNCHANGED spc
          ELSE /\ cpu' = [cpu EXCEPT ![c] = popped]
               /\ spc' = [spc EXCEPT ![c].pc = "acq_cas", ![c].r = FALSE]
    /\ UNCHANGED <<slock, shold>>
    /\ UNCHANGED notSpin

\* a swap in place of the compare_and_swap: it stores true and goes on
\* whatever locked was
acquire_swap(locked) == [taken |-> TRUE, locked |-> TRUE]

\* acquire line 32: locked.compare_and_swap(false, true), which ends the loop
\* when it returns false
acquire_cas(locked) == [taken |-> ~locked, locked |-> TRUE]

\* acquire lines 32-34: one compare_and_swap that succeeds (one that fails
\* changes nothing and is tried again)
AcquireCas(c) ==
    /\ Running(c) /\ spc[c].pc = "acq_cas"
    /\ acquire_cas(slock[spc[c].lk].locked).taken
    /\ slock' = [slock EXCEPT ![spc[c].lk].locked = acquire_cas(@).locked]
    /\ spc' = [spc EXCEPT ![c].pc = "acq_store"]
    /\ UNCHANGED <<cpu, shold>>
    /\ UNCHANGED notSpin

\* acquire line 41: self.cpu.store(my_cpu()), and acquire returns
AcquireStore(c) ==
    /\ Running(c) /\ spc[c].pc = "acq_store"
    /\ slock' = [slock EXCEPT ![spc[c].lk].cpu = c]
    /\ shold' = [shold EXCEPT ![c] = @ \cup {spc[c].lk}]
    /\ spc' = [spc EXCEPT ![c] = [pc |-> "idle", lk |-> NULL, r |-> FALSE]]
    /\ UNCHANGED cpu
    /\ UNCHANGED notSpin

\* release line 50: holding()'s push_cli and its load of locked
ReleaseCall(c, l) ==
    /\ SpinIdle(c)
    /\ cpu[c].num_cli < MaxDepth
    /\ cpu' = [cpu EXCEPT ![c] = push_cli(@, @.IF)]
    /\ spc' = [spc EXCEPT ![c] = [pc |-> "rel_assert", lk |-> l, r |-> slock[l].locked]]
    /\ UNCHANGED <<slock, shold>>
    /\ UNCHANGED notSpin

\* release line 50: the rest of holding() and the assert
ReleaseAssert(c) ==
    /\ Running(c) /\ spc[c].pc = "rel_assert"
    /\ LET l == spc[c].lk
           popped == pop_cli(cpu[c])
       IN IF holding(slock[l], spc[c].r, c)
          THEN /\ cpu' = [cpu EXCEPT ![c] = popped]
               /\ spc' = [spc EXCEPT ![c].pc = "rel_cpu", ![c].r = FALSE]
          ELSE /\ cpu' = [cpu EXCEPT ![c] = spin_panic(popped, "release")]
               /\ UNCHANGED spc
    /\ UNCHANGED <<slock, shold>>
    /\ UNCHANGED notSpin

\* release line 51: self.cpu.store(null)
ReleaseCpu(c) ==
    /\ Running(c) /\ spc[c].pc = "rel_cpu"
    /\ slock' = [slock EXCEPT ![spc[c].lk].cpu = NULL]
    /\ spc' = [spc EXCEPT ![c].pc = "rel_locked"]
    /\ UNCHANGED <<cpu, shold>>
    /\ UNCHANGED notSpin

\* release line 59: self.locked.store(false)
ReleaseLocked(c) ==
    /\ Running(c) /\ spc[c].pc = "rel_locked"
    /\ slock' = [slock EXCEPT ![spc[c].lk].locked = FALSE]
    /\ shold' = [shold EXCEPT ![c] = @ \ {spc[c].lk}]
    /\ spc' = [spc EXCEPT ![c].pc = "rel_pop"]
    /\ UNCHANGED cpu
    /\ UNCHANGED notSpin

\* release line 63: pop_cli, and release returns
ReleasePop(c) ==
    /\ Running(c) /\ spc[c].pc = "rel_pop"
    /\ cpu' = [cpu EXCEPT ![c] = pop_cli(@)]
    /\ spc' = [spc EXCEPT ![c] = [pc |-> "idle", lk |-> NULL, r |-> FALSE]]
    /\ UNCHANGED <<slock, shold>>
    /\ UNCHANGED notSpin

\* the scheduler's sti (proc.rs:451), outside acquire and release
SpinSti(c) ==
    /\ spc[c].pc = "idle"
    /\ Sti(c)

SpinNext ==
    \/ \E c \in CPUs, l \in Locks : AcquireCall(c, l)
    \/ \E c \in CPUs : AcquireAssert(c)
    \/ \E c \in CPUs : AcquireCas(c)
    \/ \E c \in CPUs : AcquireStore(c)
    \/ \E c \in CPUs, l \in Locks : ReleaseCall(c, l)
    \/ \E c \in CPUs : ReleaseAssert(c)
    \/ \E c \in CPUs : ReleaseCpu(c)
    \/ \E c \in CPUs : ReleaseLocked(c)
    \/ \E c \in CPUs : ReleasePop(c)
    \/ \E c \in CPUs : SpinSti(c)

----------------------------------------------------------------------------
(***************************************************************************)
(* Process table and scheduler: kernel/src/proc.rs.  CPU 1 is the boot     *)
(* CPU: main() starts the others (they enter scheduler()), then calls      *)
(* user_init and enters scheduler() itself (main.rs:104-110).              *)
(***************************************************************************)
\* heap cells for Process objects
NSlots == 3
\* pids handed out in a run
MaxPid == 4

Slots == 1..NSlots
BootCpu == 1

NoProc == [state |-> "Free", pid |-> NULL]

\* ProcessTable::new, CpuShared::zero, and the CPUs as start_others leaves them
SchedVarsInit ==
    /\ runnable = <<>>
    /\ next_pid = 1
    /\ procs = [o \in Slots |-> NoProc]
    /\ current_proc = [c \in CPUs |-> NULL]
    /\ ptableLock = FREE
    /\ schpc = [c \in CPUs |-> IF c = BootCpu THEN "main" ELSE "top"]
    /\ schp = [c \in CPUs |-> NULL]
    /\ FIRST_TIME = TRUE
    /\ pidlog = <<>>
    /\ plock = [o \in Slots |-> FREE]
    /\ lockEdges = {}

\* SpinLock::acquire of the lock named l by a CPU that holds the locks in
\* owned: the pairs <<held, acquired>> the acquisition adds
Acquire(owned, l) == {<<h, l>> : h \in owned}

\* the spinlocks ProcessTable::user_init takes under the "ptable" guard of
\* proc::user_init: kmem in alloc_proc's kalloc; then, when that gave a
\* frame, the new process's lock, kmem again in setup_kvm and uvm::init, and
\* ICACHE in inode::from_name("/")
user_init_locks(frame) ==
    Acquire({"ptable"}, "kmem") \cup
    (IF frame
     THEN Acquire({"ptable"}, "process") \cup Acquire({"ptable", "process"}, "kmem")
          \cup Acquire({"ptable", "process"}, "icache")
     ELSE {})

\* take_next_pid that hands out next_pid and leaves it as it is
take_next_pid_keep(n) == [pid |-> n, next_pid |-> n]

\* ProcessTable::take_next_pid
take_next_pid(n) == [pid |-> n, next_pid |-> n + 1]

\* get_runnable that returns the last element and leaves it in the Vec
get_runnable_keep(r) == [p |-> IF r = <<>> THEN NULL ELSE r[Len(r)], runnable |-> r]

\* ProcessTable::get_runnable: Vec::pop
get_runnable(r) ==
    IF r = <<>> THEN [p |-> NULL, runnable |-> r]
    ELSE [p |-> r[Len(r)], runnable |-> SubSeq(r, 1, Len(r) - 1)]

\* ProcessTable::put: Vec::push
put(r, p) == Append(r, p)

\* ProcessTable::alloc_proc in cell o: an Embryo with the next pid.  When
\* kalloc has no frame for the kernel stack its unwrap() panics, after the
\* pid was taken.
alloc_proc(ps, n, o, frame) ==
    LET t == take_next_pid(n)
    IN [procs |-> IF frame THEN [ps EXCEPT ![o] = [state |-> "Embryo", pid |-> t.pid]] ELSE ps,
        next_pid |-> t.next_pid,
        pid |-> t.pid,
        panic |-> ~frame]

\* proc::user_init on the boot CPU: PROC_TABLE.lock().user_init(), one
\* critical section of the process-table lock
UserInit(o, frame) ==
    /\ schpc[BootCpu] = "main"
    /\ ptableLock = FREE
    /\ procs[o].state = "Free"
    /\ LET a == alloc_proc(procs, next_pid, o, frame)
       IN /\ next_pid' = a.next_pid
          /\ pidlog' = Append(pidlog, a.pid)
          /\ IF a.panic
             THEN /\ schpc' = [schpc EXCEPT ![BootCpu] = "panicked"]
                  /\ ptableLock' = BootCpu
                  /\ UNCHANGED <<procs, runnable>>
             ELSE /\ procs' = [a.procs EXCEPT ![o].state = "Runnable"]
                  /\ runnable' = put(runnable, o)
                  /\ schpc' = [schpc EXCEPT ![BootCpu] = "top"]
                  /\ UNCHANGED ptableLock
    /\ plock[o] = FREE
    /\ lockEdges' = lockEdges \cup user_init_locks(frame)
    /\ UNCHANGED <<current_proc, schp, FIRST_TIME, plock>>
    /\ UNCHANGED notSched

\* PROC_TABLE.lock().alloc_proc() by a kernel thread on CPU c, the caller
\* keeping the ProcessRef
AllocProc(c, o, frame) ==
    /\ schpc[c] = "top"
    /\ ptableLock = FREE
    /\ next_pid < MaxPid
    /\ procs[o].state = "Free"
    /\ LET a == alloc_proc(procs, next_pid, o, frame)
       IN /\ next_pid' = a.next_pid
          /\ pidlog' = Append(pidlog, a.pid)
          /\ procs' = a.procs
          /\ IF a.panic
             THEN /\ schpc' = [schpc EXCEPT ![c] = "panicked"]
                  /\ ptableLock' = c
             ELSE UNCHANGED <<schpc, ptableLock>>
    /\ lockEdges' = lockEdges \cup Acquire({"ptable"}, "kmem")
    /\ UNCHANGED <<runnable, current_proc, schp, FIRST_TIME, plock>>
    /\ UNCHANGED notSched

\* the last ProcessRef to an Embryo is dropped: the process is gone and its
\* cell is free again
ProcDrop(o) ==
    /\ procs[o].state = "Embryo"
    /\ procs' = [procs EXCEPT ![o] = NoProc]
    /\ UNCHANGED <<runnable, next_pid, current_proc, ptableLock, schpc, schp,
                   FIRST_TIME, pidlog, plock, lockEdges>>
    /\ UNCHANGED notSched

\* scheduler lines 454-456: my_cpu().current_proc = None
SchedClear(c) ==
    /\ schpc[c] = "top"
    /\ current_proc' = [current_proc EXCEPT ![c] = NULL]
    /\ schpc' = [schpc EXCEPT ![c] = "pick"]
    /\ UNCHANGED <<runnable, next_pid, procs, ptableLock, schp, FIRST_TIME, pidlog,
                   plock, lockEdges>>
    /\ UNCHANGED notSched

\* scheduler line 457: PROC_TABLE.lock().get_runnable().  The guard is a
\* temporary of the if-let's scrutinee: it is dropped at the end of the
\* if-let, at once when nothing was runnable, after the body otherwise.
SchedPick(c) ==
    /\ schpc[c] = "pick"
    /\ ptableLock = FREE
    /\ LET g == get_runnable(runnable)
       IN /\ runnable' = g.runnable
          /\ IF g.p = NULL
             THEN /\ schpc' = [schpc EXCEPT ![c] = "top"]
                  /\ UNCHANGED <<ptableLock, schp>>
             ELSE /\ schpc' = [schpc EXCEPT ![c] = "set_current"]
                  /\ schp' = [schp EXCEPT ![c] = g.p]
                  /\ ptableLock' = c
    /\ UNCHANGED <<next_pid, procs, current_proc, FIRST_TIME, pidlog, plock, lockEdges>>
    /\ UNCHANGED notSched

\* scheduler lines 458-460: my_cpu().current_proc = Some(p.clone())
SchedSetCurrent(c) ==
    /\ schpc[c] = "set_current"
    /\ current_proc' = [current_proc EXCEPT ![c] = schp[c]]
    /\ schpc' = [schpc EXCEPT ![c] = "set_running"]
    /\ UNCHANGED <<runnable, next_pid, procs, ptableLock, schp, FIRST_TIME, pidlog,
                   plock, lockEdges>>
    /\ UNCHANGED notSched

\* scheduler lines 461-462: vm::uvm::switch(&p); p.lock().state = Running.
\* The guard of p.lock() is a temporary of the assignment and is dropped at
\* its end.
SchedSetRunning(c) ==
    /\ schpc[c] = "set_running"
    /\ plock[schp[c]] = FREE
    /\ procs' = [procs EXCEPT ![schp[c]].state = "Running"]
    /\ schpc' = [schpc EXCEPT ![c] = "switch"]
    /\ lockEdges' = lockEdges \cup Acquire({"ptable"}, "process")
    /\ UNCHANGED <<runnable, next_pid, current_proc, ptableLock, schp, FIRST_TIME, pidlog,
                   plock>>
    /\ UNCHANGED notSched

\* scheduler lines 465-466 and forkret: switch(sched_ctx, p.lock().context)
\* switches into the process, whose context starts at forkret; the first
\* process to get there runs todo!().  The guard of p.lock() is a temporary
\* of the call statement: it is dropped when switch returns, so the process
\* lock, like the guard of PROC_TABLE, is held while the process runs.
SchedSwitch(c) ==
    /\ schpc[c] = "switch"
    /\ plock[schp[c]] = FREE
    /\ plock' = [plock EXCEPT ![schp[c]] = c]
    /\ lockEdges' = lockEdges \cup Acquire({"ptable"}, "process")
    /\ FIRST_TIME' = FALSE
    /\ schpc' = [schpc EXCEPT ![c] = IF FIRST_TIME THEN "panicked" ELSE "user"]
    /\ UNCHANGED <<runnable, next_pid, procs, current_proc, ptableLock, schp, pidlog>>
    /\ UNCHANGED notSched

SchedNext ==
    \/ \E o \in Slots, frame \in BOOLEAN : UserInit(o, frame)
    \/ \E c \in CPUs, o \in Slots, frame \in BOOLEAN : AllocProc(c, o, frame)
    \/ \E o \in Slots : ProcDrop(o)
    \/ \E c \in CPUs : SchedClear(c)
    \/ \E c \in CPUs : SchedPick(c)
    \/ \E c \in CPUs : SchedSetCurrent(c)
    \/ \E c \in CPUs : SchedSetRunning(c)
    \/ \E c \in CPUs : SchedSwitch(c)

----------------------------------------------------------------------------
(***************************************************************************)
(* Physical page allocator: kernel/src/kalloc.rs.  main() calls init1 on   *)
(* the boot CPU, allocates (kvmalloc, start_others), calls init2, which    *)
(* ends with use_lock = true; from then on every CPU calls kalloc and      *)
(* kfree under the kmem spinlock (Kmem::with), one critical section each.  *)
(* A frame is named by its index; every index is a page between kernel_end *)
(* and PHYSTOP, so the two asserts of kfree hold.                          *)
(***************************************************************************)
\* page frames between kernel_end and PHYSTOP
NFrames == 3
\* frames that init1 puts on the list (the rest is left to init2)
Init1Frames == 1

Frames == 0..(NFrames - 1)
NoCall == -2

\* KMEM as its static initialiser leaves it; no frame is on the list
KmemVarsInit ==
    /\ free_list = NULL
    /\ knext = [f \in Frames |-> NULL]
    /\ use_lock = FALSE
    /\ kinit = 0
    /\ kowner = [f \in Frames |-> "out"]
    /\ kret = [c \in CPUs |-> NoCall]
    /\ kfreed = <<>>

\* kfree's closure, lines 85-87: (*r).next = *free_list; *free_list = r
kfree(fl, nx, page) == [free_list |-> page, next |-> [nx EXCEPT ![page] = fl]]

\* kalloc that returns the head of the list and leaves it there
kalloc_keep(fl, nx) == [r |-> fl, free_list |-> fl]

\* kalloc's closure, lines 96-103: r = *free_list; unlink r if not null
kalloc(fl, nx) ==
    IF fl # NULL THEN [r |-> fl, free_list |-> nx[fl]]
    ELSE [r |-> NULL, free_list |-> fl]

\* who may call the allocator: the boot CPU between init1 and init2, and
\* every CPU once init2 is done (use_lock set)
KmemCaller(c) == use_lock \/ (c = BootCpu /\ kinit = Init1Frames)

\* free_range, lines 61-65: one kfree(page) of the loop, in init1 or init2
FreeRange ==
    /\ kinit < NFrames
    /\ LET r == kfree(free_list, knext, kinit)
       IN free_list' = r.free_list /\ knext' = r.next
    /\ kowner' = [kowner EXCEPT ![kinit] = "free"]
    /\ kfreed' = <<kinit>> \o kfreed
    /\ kinit' = kinit + 1
    /\ UNCHANGED <<use_lock, kret>>
    /\ UNCHANGED notKmem

\* init2 line 53: KMEM.lock()
KmemLock ==
    /\ kinit = NFrames /\ ~use_lock
    /\ use_lock' = TRUE
    /\ UNCHANGED <<free_list, knext, kinit, kowner, kret, kfreed>>
    /\ UNCHANGED notKmem

\* kalloc() on CPU c
Kalloc(c) ==
    /\ KmemCaller(c)
    /\ LET a == kalloc(free_list, knext)
       IN /\ free_list' = a.free_list
          /\ kret' = [kret EXCEPT ![c] = a.r]
          /\ kowner' = IF a.r # NULL THEN [kowner EXCEPT ![a.r] = ToString(c)] ELSE kowner
          /\ kfreed' = SelectSeq(kfreed, LAMBDA x : x # a.r)
    /\ UNCHANGED <<knext, use_lock, kinit>>
    /\ UNCHANGED notKmem

\* kfree(page) on CPU c, of a frame that kalloc gave it
Kfree(c, page) ==
    /\ KmemCaller(c)
    /\ kowner[page] = ToString(c)
    /\ LET r == kfree(free_list, knext, page)
       IN free_list' = r.free_list /\ knext' = r.next
    /\ kowner' = [kowner EXCEPT ![page] = "free"]
    /\ kfreed' = <<page>> \o kfreed
    /\ kret' = [kret EXCEPT ![c] = NoCall]
    /\ UNCHANGED <<use_lock, kinit>>
    /\ UNCHANGED notKmem

\* the owner of an allocated frame writes to it (its first word held
\* Run.next while it was free)
FrameWrite(c, page, v) ==
    /\ KmemCaller(c)
    /\ kowner[page] = ToString(c)
    /\ knext[page] # v
    /\ knext' = [knext EXCEPT ![page] = v]
    /\ UNCHANGED <<free_list, use_lock, kinit, kowner, kret, kfreed>>
    /\ UNCHANGED notKmem

KmemNext ==
    \/ FreeRange
    \/ KmemLock
    \/ \E c \in CPUs : Kalloc(c)
    \/ \E c \in CPUs, page \in Frames : Kfree(c, page)
    \/ \E c \in CPUs, page \in Frames, v \in Frames \cup {NULL} : FrameWrite(c, page, v)

----------------------------------------------------------------------------
(***************************************************************************)
(* Page tables: walk_page_dir and map_pages, kernel/src/vm.rs:41-95, with  *)
(* the entry types of kernel/src/memory.rs:10-117.  The two-level layout   *)
(* is kept (directory index, table index, 12 offset bits); the number of   *)
(* entries per level and KERNBASE are scaled down.  Addresses are bytes.   *)
(***************************************************************************)
\* entries per page directory (1024 in memory.rs:10)
NPDENTRIES == 2
\* PTEs per page table (1024 in memory.rs:12)
NPTENTRIES == 2
\* first kernel virtual address (0x80000000 in memory.rs:286)
KERNBASE == 65536
\* frames of physical memory that map_pages is asked to map
NPhys == 2
\* frames kalloc has for page tables
NTabFrames == 2
\* map_pages calls in a run
MaxMaps == 2

PAGE_SIZE == 4096
PRESENT == 1
WRITABLE == 2
USER == 4
DIR_ENT_FLAG_MASK == 4031
TAB_ENT_FLAG_MASK == 3967

\* size of the virtual address space: a VAddr wraps at this value
VaTop == NPDENTRIES * NPTENTRIES * PAGE_SIZE
\* physical addresses of the frames kalloc has: above the mapped ones
TabFrames == {(NPhys + i) * PAGE_SIZE : i \in 0..(NTabFrames - 1)}

\* u32 & and | on naturals
RECURSIVE BitAnd(_, _)
BitAnd(x, y) ==
    IF x = 0 \/ y = 0 THEN 0
    ELSE (x % 2) * (y % 2) + 2 * BitAnd(x \div 2, y \div 2)
RECURSIVE BitOr(_, _)
BitOr(x, y) ==
    IF x = 0 THEN y ELSE IF y = 0 THEN x
    ELSE (IF x % 2 = 1 \/ y % 2 = 1 THEN 1 ELSE 0) + 2 * BitOr(x \div 2, y \div 2)

p2v(pa) == pa + KERNBASE
v2p(va) == va - KERNBASE

\* pg_dir::pdx, pg_dir::ptx
pdx(va) == (va \div (PAGE_SIZE * NPTENTRIES)) % NPDENTRIES
ptx(va) == (va \div PAGE_SIZE) % NPTENTRIES

\* Addr::round_down(PAGE_SIZE)
round_down(a, align) == a - BitAnd(a, align - 1)

\* PageDirEntry::new_table, ::addr, ::flags_check
pde_new_table(addr, flags) == BitOr(addr, BitAnd(flags, DIR_ENT_FLAG_MASK))
pde_addr(e) == e - BitAnd(e, DIR_ENT_FLAG_MASK)
pde_flags_check(e, mask) == BitAnd(BitAnd(e, DIR_ENT_FLAG_MASK), mask) = mask

\* PageTableEntry::new with | taken before &: (page_addr | flags) & mask
pte_new_or_first(page_addr, flags) == BitAnd(BitOr(page_addr, flags), TAB_ENT_FLAG_MASK)

\* PageTableEntry::new, ::addr, ::flags, ::flags_check
pte_new(page_addr, flags) == BitOr(page_addr, BitAnd(flags, TAB_ENT_FLAG_MASK))
pte_addr(e) == e - BitAnd(e, TAB_ENT_FLAG_MASK)
pte_flags(e) == BitAnd(e, TAB_ENT_FLAG_MASK)
\* flags_check that tests the address bits of the entry
pte_flags_check_addr(e, mask) == BitAnd(pte_addr(e), mask) = mask
\* PageTableEntry::flags_check
pte_flags_check(e, mask) == BitAnd(BitAnd(e, TAB_ENT_FLAG_MASK), mask) = mask

\* an empty page directory (setup_kvm's memset), kalloc with all its frames
VmVarsInit ==
    /\ pgdir = [i \in 0..(NPDENTRIES - 1) |-> 0]
    /\ ptmem = [f \in {p2v(x) : x \in TabFrames} |-> [i \in 0..(NPTENTRIES - 1) |-> 0]]
    /\ ptfree = TabFrames
    /\ mcall = [va |-> 0, size |-> 0, pa |-> 0, perm |-> 0, res |-> "none yet"]
    /\ nmaps = 0

\* kalloc() as walk_page_dir sees it: the virtual address of a frame, or NULL
vm_kalloc(free) == IF free = {} THEN NULL ELSE p2v(CHOOSE x \in free : \A y \in free : x <= y)

\* walk_page_dir(pg_dir, va, alloc): the page table (its virtual address) and
\* the index of the PTE, or tab = NULL for None; with the directory, the
\* table memory and kalloc's frames as the call leaves them
walk_page_dir(pd, mem, free, va, alloc) ==
    LET pde == pd[pdx(va)]
    IN IF pde_flags_check(pde, PRESENT)
       THEN [tab |-> p2v(pde_addr(pde)), idx |-> ptx(va), pd |-> pd, mem |-> mem, free |-> free]
       ELSE IF ~alloc \/ vm_kalloc(free) = NULL
       THEN [tab |-> NULL, idx |-> 0, pd |-> pd, mem |-> mem, free |-> free]
       ELSE LET pg_tab == vm_kalloc(free)
            IN [tab |-> pg_tab, idx |-> ptx(va),
                pd |-> [pd EXCEPT ![pdx(va)] =
                           pde_new_table(v2p(pg_tab), BitOr(BitOr(PRESENT, WRITABLE), USER))],
                mem |-> [mem EXCEPT ![pg_tab] = [i \in 0..(NPTENTRIES - 1) |-> 0]],
                free |-> free \ {v2p(pg_tab)}]

\* the loop of map_pages from page a on: res is "ok" (Some), "none" (None)
\* or "remap" (the panic)
RECURSIVE map_loop(_, _, _, _, _, _, _)
map_loop(pd, mem, free, a, last, pa, perm) ==
    LET w == walk_page_dir(pd, mem, free, a, TRUE)
    IN IF w.tab = NULL
       THEN [res |-> "none", pd |-> w.pd, mem |-> w.mem, free |-> w.free]
       ELSE IF pte_flags_check(w.mem[w.tab][w.idx], PRESENT)
       THEN [res |-> "remap", pd |-> w.pd, mem |-> w.mem, free |-> w.free]
       ELSE LET mem1 == [w.mem EXCEPT ![w.tab][w.idx] = pte_new(pa, BitOr(perm, PRESENT))]
            IN IF a = last
               THEN [res |-> "ok", pd |-> w.pd, mem |-> mem1, free |-> w.free]
               ELSE map_loop(w.pd, mem1, w.free, (a + PAGE_SIZE) % VaTop, last,
                             pa + PAGE_SIZE, perm)

\* map_pages(pg_dir, va, size, pa, perm)
map_pages(pd, mem, free, va, size, pa, perm) ==
    map_loop(pd, mem, free,
             round_down(va, PAGE_SIZE),
             round_down((va + size - 1) % VaTop, PAGE_SIZE),
             pa, perm)

\* the arguments callers pass (setup_kvm's kmap, uvm::init): any va, a size
\* of at least one byte that does not run past the top of the address space,
\* a page-aligned pa, permissions out of WRITABLE and USER
MapVas == {p * PAGE_SIZE + off : p \in 0..(NPDENTRIES * NPTENTRIES - 1), off \in {0, 1}}
MapSizes == {1, PAGE_SIZE, PAGE_SIZE + 1, 2 * PAGE_SIZE, 3 * PAGE_SIZE}
MapPas == {f * PAGE_SIZE : f \in 0..(NPhys - 1)}
MapPerms == {0, WRITABLE, WRITABLE + USER}

\* one call of map_pages on the page directory
MapPages(va, size, pa, perm) ==
    /\ mcall.res # "remap"
    /\ nmaps < MaxMaps
    /\ va + size <= VaTop
    /\ LET r == map_pages(pgdir, ptmem, ptfree, va, size, pa, perm)
       IN /\ pgdir' = r.pd
          /\ ptmem' = r.mem
          /\ ptfree' = r.free
          /\ mcall' = [va |-> va, size |-> size, pa |-> pa, perm |-> perm, res |-> r.res]
    /\ nmaps' = nmaps + 1
    /\ UNCHANGED notVm

\* kalloc() by another caller (a kernel stack, a user page): the frame
\* walk_page_dir would have got is gone
VmOtherKalloc ==
    /\ mcall.res # "remap"
    /\ ptfree # {}
    /\ ptfree' = ptfree \ {v2p(vm_kalloc(ptfree))}
    /\ UNCHANGED <<pgdir, ptmem, mcall, nmaps>>
    /\ UNCHANGED notVm

VmNext ==
    \/ \E va \in MapVas, size \in MapSizes, pa \in MapPas, perm \in MapPerms :
          MapPages(va, size, pa, perm)
    \/ VmOtherKalloc

----------------------------------------------------------------------------
(***************************************************************************)
(* split_first and the loop of name_x that calls it,                       *)
(* kernel/src/fs/inode.rs:225-270.  A path is a sequence of bytes.         *)
(***************************************************************************)
\* longest path walked
MaxPathLen == 5

\* b'/', and two bytes a name is made of
SLASH == 47
PathBytes == {SLASH, 97, 98}

RECURSIVE PathsOfLen(_)
PathsOfLen(n) ==
    IF n = 0 THEN {<<>>}
    ELSE {<<b>> \o p : b \in PathBytes, p \in PathsOfLen(n - 1)}
Paths == UNION {PathsOfLen(n) : n \in 0..MaxPathLen}

\* skip_leading_slash that strips nothing
skip_leading_slash_keep(p) == p

\* skip_leading_slash: while !path.is_empty() && path[0] == b'/'
RECURSIVE skip_leading_slash(_)
skip_leading_slash(p) ==
    IF p # <<>> /\ Head(p) = SLASH THEN skip_leading_slash(Tail(p)) ELSE p

\* the second loop of split_first stopping after one byte
first_elem_loop_one(p, len) == [path |-> Tail(p), len |-> len + 1]

\* the second loop of split_first: steps over the bytes that are not b'/',
\* counting them in len
RECURSIVE first_elem_loop(_, _)
first_elem_loop(p, len) ==
    IF p # <<>> /\ Head(p) # SLASH THEN first_elem_loop(Tail(p), len + 1)
    ELSE [path |-> p, len |-> len]

\* split_first(path): some = FALSE for None, else Some((first, rest))
split_first(p) ==
    LET s == skip_leading_slash(p)
    IN IF s = <<>> THEN [some |-> FALSE, first |-> <<>>, rest |-> <<>>]
       ELSE LET l == first_elem_loop(s, 0)
            IN [some |-> TRUE, first |-> SubSeq(s, 1, l.len),
                rest |-> skip_leading_slash(l.path)]

PathVarsInit ==
    /\ path \in Paths
    /\ split = [called |-> FALSE, arg |-> <<>>, res |-> split_first(<<>>)]
    /\ path0 = path
    /\ names = <<>>
    /\ nstart = "none"

\* name_x that starts at the root for every path beginning with '/'
name_x_start_prefix(p) == IF p # <<>> /\ p[1] = SLASH THEN "root" ELSE "cwd"

\* name_x lines 240-246: match path { "/" => the root inode, _ => the cwd of
\* the current process }
name_x_start(p) == IF p = <<SLASH>> THEN "root" ELSE "cwd"

\* name_x(path, ..) up to its loop
NameXStart ==
    /\ nstart = "none"
    /\ nstart' = name_x_start(path)
    /\ UNCHANGED <<path, split, path0, names>>
    /\ UNCHANGED notPath

\* one turn of name_x's `while let Some((name, path_)) = split_first(path)`:
\* path = path_ when there is a name, the loop ends when there is none
SplitFirst ==
    /\ nstart # "none"
    /\ ~(split.called /\ ~split.res.some)
    /\ split' = [called |-> TRUE, arg |-> path, res |-> split_first(path)]
    /\ path' = IF split_first(path).some THEN split_first(path).rest ELSE path
    /\ names' = IF split_first(path).some THEN Append(names, split_first(path).first)
                 ELSE names
    /\ UNCHANGED <<path0, nstart>>
    /\ UNCHANGED notPath

PathNext == NameXStart \/ SplitFirst

----------------------------------------------------------------------------
(***************************************************************************)
(* Addr::round_up and Addr::round_down, utils/src/address.rs:75-95.  usize *)
(* is UsizeBits wide (32 on the i386 target): wrapping_add wraps there.    *)
(***************************************************************************)
\* width of usize
UsizeBits == 10

RECURSIVE Pow2(_)
Pow2(n) == IF n = 0 THEN 1 ELSE 2 * Pow2(n - 1)
UsizeRange == Pow2(UsizeBits)
\* the alignments that pass debug_assert!(align.is_power_of_two())
PowersOfTwo == {Pow2(n) : n \in 0..(UsizeBits - 1)}

\* usize::wrapping_add, usize::wrapping_sub
wrapping_add(x, y) == (x + y) % UsizeRange
wrapping_sub(x, y) == (x - y + UsizeRange) % UsizeRange

\* round_up without the mask: raw.wrapping_add(align - 1)
round_up_unmasked(raw, align) == wrapping_add(raw, wrapping_sub(align, 1))

\* Addr::round_up: raw.wrapping_add(tmp) & !tmp with tmp = align.wrapping_sub(1)
round_up(raw, align) ==
    LET tmp == wrapping_sub(align, 1)
    IN wrapping_add(raw, tmp) - BitAnd(wrapping_add(raw, tmp), tmp)

RoundVarsInit ==
    /\ raddr \in 0..(UsizeRange - 1)
    /\ ralign \in PowersOfTwo
    /\ rounded = [called |-> FALSE, up |-> 0, down |-> 0]

\* addr.round_up(align) and addr.round_down(align)
Round ==
    /\ ~rounded.called
    /\ rounded' = [called |-> TRUE, up |-> round_up(raddr, ralign),
                   down |-> round_down(raddr, ralign)]
    /\ UNCHANGED <<raddr, ralign>>
    /\ UNCHANGED notRound

RoundNext == Round

----------------------------------------------------------------------------
(***************************************************************************)
(* Traps: kernel/src/trap.rs.  Every vector pushes its number and jumps to *)
(* alltraps, which builds the trap frame and calls trap(); trapret pops    *)
(* the frame and returns with iret.  No process ever reaches user mode     *)
(* (forkret ends in todo!()), so every trap interrupts the kernel.         *)
(***************************************************************************)
\* traps each CPU takes in a run
MaxTraps == 3

IRQ_TIMER == 0
IRQ_KBD == 1
IRQ_COM1 == 4

\* the external interrupts the interrupt controllers deliver
Vectors == {T_IRQ0 + IRQ_TIMER, T_IRQ0 + IRQ_KBD, T_IRQ0 + IRQ_COM1, T_IRQ0 + IRQ_IDE}

\* static TICKS, and no trap under way
TrapVarsInit ==
    /\ TICKS = 0
    /\ tno = [c \in CPUs |-> 0]
    /\ eois = [c \in CPUs |-> 0]

\* vector v is taken on CPU c: alltraps has built the trap frame
TrapArrive(c, v) ==
    /\ tno[c] = 0
    /\ eois[c] < MaxTraps
    /\ tno' = [tno EXCEPT ![c] = v]
    /\ UNCHANGED <<TICKS, eois>>
    /\ UNCHANGED notTrap

\* trap(trap_frame) and trapret on CPU c
TrapReturn(c) ==
    /\ tno[c] # 0
    /\ eois' = [eois EXCEPT ![c] = IF trap(tno[c]).eoi THEN @ + 1 ELSE @]
    /\ tno' = [tno EXCEPT ![c] = 0]
    /\ UNCHANGED TICKS
    /\ UNCHANGED notTrap

TrapNext ==
    \/ \E c \in CPUs, v \in Vectors : TrapArrive(c, v)
    \/ \E c \in CPUs : TrapReturn(c)

----------------------------------------------------------------------------
(***************************************************************************)
(* Starting the other processors: kernel/src/main.rs, start_others,        *)
(* mp_enter and mp_main, with lapic::start_ap (lapic.rs:145-184).          *)
(***************************************************************************)
\* CPUs that mp::init found
NMpCpu == 4

MpCpus == 0..(NMpCpu - 1)

\* mp_main that tells start_others it is up before its local set-up
mp_prog_started_first ==
    <<"store_started", "switch_kvm", "seginit", "lapic_init", "idt_init", "scheduler">>

\* what an application processor runs from the entry code on: mp_enter
\* (lines 114-119) and mp_main (lines 122-130), one step each
mp_prog == <<"switch_kvm", "seginit", "lapic_init", "idt_init", "store_started", "scheduler">>

\* the IPIs of the universal start-up algorithm, in the order start_ap sends them
start_ap == <<"INIT", "STARTUP", "STARTUP">>

\* the steps of its program CPU c has finished
MpDone(c) == {mp_prog[i] : i \in 1..mpc[c]}

\* CpuShared::zero for every CPU; the others halted, the boot CPU in main()
\* about to call start_others
MpVarsInit ==
    /\ main_cpu_id \in MpCpus
    /\ started = [c \in MpCpus |-> FALSE]
    /\ mpc = [c \in MpCpus |-> -1]
    /\ so = [pc |-> "loop", idx |-> 0]
    /\ ipis = [c \in MpCpus |-> <<>>]

\* start_others lines 138-141: the next element of cpus(), the boot CPU
\* skipped; the function returns after the last one
StartOthersLoop ==
    /\ so.pc = "loop"
    /\ so' = IF so.idx = NMpCpu THEN [so EXCEPT !.pc = "returned"]
             ELSE IF so.idx = main_cpu_id THEN [so EXCEPT !.idx = @ + 1]
             ELSE [so EXCEPT !.pc = "kalloc"]
    /\ UNCHANGED <<main_cpu_id, started, mpc, ipis>>
    /\ UNCHANGED notMp

\* start_others lines 143-150: kalloc().unwrap() and the arguments of the
\* entry code
StartOthersKalloc(frame) ==
    /\ so.pc = "kalloc"
    /\ so' = [so EXCEPT !.pc = IF frame THEN "start_ap" ELSE "panicked"]
    /\ UNCHANGED <<main_cpu_id, started, mpc, ipis>>
    /\ UNCHANGED notMp

\* lapic::start_ap(cpu.apic_id, ..): the next IPI.  INIT resets the target,
\* a STARTUP starts a CPU that waits after INIT and is ignored by one that
\* runs.
StartAp ==
    /\ so.pc = "start_ap"
    /\ LET c == so.idx
           k == Len(ipis[c]) + 1
       IN /\ ipis' = [ipis EXCEPT ![c] = Append(@, start_ap[k])]
          /\ mpc' = [mpc EXCEPT ![c] = IF start_ap[k] = "INIT" THEN -1
                                       ELSE IF @ = -1 THEN 0 ELSE @]
          /\ so' = [so EXCEPT !.pc = IF k = Len(start_ap) THEN "wait" ELSE @]
    /\ UNCHANGED <<main_cpu_id, started>>
    /\ UNCHANGED notMp

\* start_others lines 155-158: while !cpu.started.load() { spin_loop_hint() }
StartOthersWait ==
    /\ so.pc = "wait"
    /\ started[so.idx]
    /\ so' = [pc |-> "loop", idx |-> so.idx + 1]
    /\ UNCHANGED <<main_cpu_id, started, mpc, ipis>>
    /\ UNCHANGED notMp

\* an application processor runs the next step of mp_enter / mp_main
MpStep(c) ==
    /\ c # main_cpu_id
    /\ mpc[c] >= 0 /\ mpc[c] < Len(mp_prog) - 1
    /\ mpc' = [mpc EXCEPT ![c] = @ + 1]
    /\ started' = [started EXCEPT ![c] = @ \/ mp_prog[mpc[c] + 1] = "store_started"]
    /\ UNCHANGED <<main_cpu_id, so, ipis>>
    /\ UNCHANGED notMp

\* main() lines 104-109 on the boot CPU after start_others: init2 and
\* user_init, then mp_main: idt_init and its own started flag
MainMpMain ==
    /\ so.pc = "returned"
    /\ ~started[main_cpu_id]
    /\ started' = [started EXCEPT ![main_cpu_id] = TRUE]
    /\ UNCHANGED <<main_cpu_id, mpc, so, ipis>>
    /\ UNCHANGED notMp

MpNext ==
    \/ StartOthersLoop
    \/ \E frame \in BOOLEAN : StartOthersKalloc(frame)
    \/ StartAp
    \/ StartOthersWait
    \/ \E c \in MpCpus : MpStep(c)
    \/ MainMpMain

----------------------------------------------------------------------------
(***************************************************************************)
(* forkret: kernel/src/proc.rs:475-485.  alloc_proc points the context of  *)
(* every new process at forkret, so each process starts there when a       *)
(* scheduler first switches into it; the static FIRST_TIME is shared by    *)
(* all of them.                                                            *)
(***************************************************************************)
\* processes that start on one CPU in a run
MaxForkret == 2

\* a compare_and_swap that returns the old value and stores nothing
compare_and_swap_load(cur, expected, new) == [old |-> cur, val |-> cur]

\* AtomicBool::compare_and_swap(expected, new): the old value, and the value
\* stored
compare_and_swap(cur, expected, new) ==
    [old |-> cur, val |-> IF cur = expected THEN new ELSE cur]

FkVarsInit ==
    /\ fpc = [c \in MpCpus |-> "none"]
    /\ fcas = [c \in MpCpus |-> FALSE]
    /\ fcalls = [c \in MpCpus |-> 0]
    /\ fentered = <<>>
    /\ first_runs = 0

\* a process starts on CPU c; forkret line 477:
\* FIRST_TIME.compare_and_swap(true, false, SeqCst)
ForkretCas(c) ==
    /\ fpc[c] \in {"none", "trapret"}
    /\ fcalls[c] < MaxForkret
    /\ LET r == compare_and_swap(FIRST_TIME, TRUE, FALSE)
       IN /\ FIRST_TIME' = r.val
          /\ fcas' = [fcas EXCEPT ![c] = r.old]
    /\ fpc' = [fpc EXCEPT ![c] = "branch"]
    /\ fcalls' = [fcalls EXCEPT ![c] = @ + 1]
    /\ fentered' = Append(fentered, c)
    /\ UNCHANGED first_runs
    /\ UNCHANGED <<runnable, next_pid, procs, current_proc, ptableLock, schpc, schp,
                   pidlog, plock, lockEdges>>
    /\ UNCHANGED notFk

\* forkret lines 477-484: the first-time branch (todo!(), which panics), or
\* the return to trapret
ForkretBranch(c) ==
    /\ fpc[c] = "branch"
    /\ fpc' = [fpc EXCEPT ![c] = IF fcas[c] THEN "panicked" ELSE "trapret"]
    /\ first_runs' = IF fcas[c] THEN first_runs + 1 ELSE first_runs
    /\ UNCHANGED <<fcas, fcalls, fentered>>
    /\ UNCHANGED schedVars
    /\ UNCHANGED notFk

FkNext ==
    \/ \E c \in MpCpus : ForkretCas(c)
    \/ \E c \in MpCpus : ForkretBranch(c)

----------------------------------------------------------------------------
(***************************************************************************)
(* Kernel stacks: ProcessTable::alloc_proc (proc.rs:328-362), uvm::switch  *)
(* (vm.rs:215) and start_others (main.rs:144-151).  Every kernel stack is  *)
(* one frame from kalloc.  A frame is named by its index; addresses are    *)
(* byte offsets from the first frame, so frame f is the PAGE_SIZE bytes    *)
(* from FrameAddr(f).  Page-table frames come from the same allocator      *)
(* (vm.rs:53, 137, 189) and go back to it in free_vm (vm.rs:244-247).      *)
(***************************************************************************)
\* frames the allocator manages
NStackFrames == 4

StackFrames == 0..(NStackFrames - 1)
FrameAddr(f) == f * PAGE_SIZE
FrameOf(a) == a \div PAGE_SIZE

\* memory::KSTACKSIZE
KSTACKSIZE == 8192
\* core::mem::size_of of trap::TrapFrame, of FnPtr and of Context, in bytes
SizeofTrapFrame == 76
SizeofFnPtr == 4
SizeofContext == 20

\* alloc_proc lines 336-357 on the frame at kernel_stack: sp starts at
\* kernel_stack.add(KSTACKSIZE) and goes down by the TrapFrame, the FnPtr
\* that holds trapret, and the Context; uvm::switch sets esp0 to
\* kernel_stack.add(KSTACKSIZE).  low is the lowest byte written.
alloc_proc_stack(kernel_stack) ==
    LET tf == (kernel_stack + KSTACKSIZE) - SizeofTrapFrame
        fp == tf - SizeofFnPtr
    IN [kind |-> "proc", kernel_stack |-> kernel_stack, trap_frame |-> tf,
        ret_slot |-> fp, context |-> fp - SizeofContext,
        low |-> fp - SizeofContext, esp0 |-> kernel_stack + KSTACKSIZE]

\* start_others line 148: the stack top handed to the processor is
\* stack.add(KSTACKSIZE) (a *mut c_void: add counts bytes); the processor's
\* first push writes the word below it
start_others_stack(stack) ==
    [kind |-> "ap", kernel_stack |-> stack, trap_frame |-> stack + KSTACKSIZE,
     ret_slot |-> stack + KSTACKSIZE, context |-> stack + KSTACKSIZE,
     low |-> (stack + KSTACKSIZE) - SizeofFnPtr, esp0 |-> stack + KSTACKSIZE]

\* the allocator after free_range has run over the frames in ascending order
StkVarsInit ==
    /\ sfl = NStackFrames - 1
    /\ snext = [f \in StackFrames |-> IF f = 0 THEN NULL ELSE f - 1]
    /\ sowner = [f \in StackFrames |-> "free"]
    /\ kstacks = {}
    /\ shalted = ""

\* alloc_proc: kalloc().unwrap(), then the layout
StkAllocProc ==
    /\ shalted = ""
    /\ LET r == kalloc(sfl, snext)
       IN IF r.r = NULL
          THEN /\ shalted' = "alloc_proc: unwrap on None"
               /\ UNCHANGED <<sfl, sowner, kstacks>>
          ELSE /\ sfl' = r.free_list
               /\ sowner' = [sowner EXCEPT ![r.r] = "stack"]
               /\ kstacks' = kstacks \cup {alloc_proc_stack(FrameAddr(r.r))}
               /\ UNCHANGED shalted
    /\ UNCHANGED snext
    /\ UNCHANGED notStk

\* start_others: kalloc().unwrap() for the next processor, then the top
StkStartOthers ==
    /\ shalted = ""
    /\ Cardinality({s \in kstacks : s.kind = "ap"}) < NMpCpu - 1
    /\ LET r == kalloc(sfl, snext)
       IN IF r.r = NULL
          THEN /\ shalted' = "start_others: unwrap on None"
               /\ UNCHANGED <<sfl, sowner, kstacks>>
          ELSE /\ sfl' = r.free_list
               /\ sowner' = [sowner EXCEPT ![r.r] = "stack"]
               /\ kstacks' = kstacks \cup {start_others_stack(FrameAddr(r.r))}
               /\ UNCHANGED shalted
    /\ UNCHANGED snext
    /\ UNCHANGED notStk

\* a page directory, page table or user page is allocated (vm.rs:53, 137,
\* 189); without a frame the caller returns None and nothing changes
StkOtherKalloc ==
    /\ shalted = ""
    /\ sfl # NULL
    /\ LET r == kalloc(sfl, snext)
       IN /\ sfl' = r.free_list
          /\ sowner' = [sowner EXCEPT ![r.r] = "page"]
    /\ UNCHANGED <<snext, kstacks, shalted>>
    /\ UNCHANGED notStk

\* free_vm gives such a frame back (vm.rs:244-247)
StkKfree(f) ==
    /\ shalted = ""
    /\ sowner[f] = "page"
    /\ LET r == kfree(sfl, snext, f)
       IN sfl' = r.free_list /\ snext' = r.next
    /\ sowner' = [sowner EXCEPT ![f] = "free"]
    /\ UNCHANGED <<kstacks, shalted>>
    /\ UNCHANGED notStk

StkNext ==
    \/ StkAllocProc
    \/ StkStartOthers
    \/ StkOtherKalloc
    \/ \E f \in StackFrames : StkKfree(f)

----------------------------------------------------------------------------
(***************************************************************************)
(* Specifications                                                          *)
(***************************************************************************)
InitBase == ListVarsInit /\ CliVarsInit /\ IdeVarsInit /\ SpinVarsInit /\ SchedVarsInit /\ KmemVarsInit /\ VmVarsInit /\ TrapVarsInit /\ FkVarsInit /\ StkVarsInit
Init == InitBase /\ IcVarsInit /\ PathVarsInit /\ RoundVarsInit /\ MpVarsInit

\* A specification that leaves a part of the kernel alone starts with that
\* part in one state: the inode cache in the first of its two forms, the
\* empty path, the address 0, the boot CPU first in cpus().
IcOne == IcVarsInit /\ idraft = "list"
NoPath == PathVarsInit /\ path = <<>>
NoRound == RoundVarsInit /\ raddr = 0 /\ ralign = 1
NoMp == MpVarsInit /\ main_cpu_id = 0
InitOther == InitBase /\ IcOne /\ NoPath /\ NoRound /\ NoMp
\* the inode cache in either form
InitIcache == InitBase /\ IcVarsInit /\ NoPath /\ NoRound /\ NoMp
\* name_x called with any path
InitPath == InitBase /\ IcOne /\ PathVarsInit /\ NoRound /\ NoMp
\* any address rounded to any power of two
InitRound == InitBase /\ IcOne /\ NoPath /\ RoundVarsInit /\ NoMp

\* start_others with the boot CPU anywhere in cpus()
InitMp == InitBase /\ IcOne /\ NoPath /\ NoRound /\ MpVarsInit

SpecList == InitOther /\ [][ListNext]_vars
SpecCli == InitOther /\ [][CliNext]_vars
SpecIde == InitOther /\ [][IdeNext]_vars
SpecIcache == InitIcache /\ [][IcNext]_vars
SpecSched == InitOther /\ [][SchedNext]_vars
SpecKmem == InitOther /\ [][KmemNext]_vars
SpecVm == InitOther /\ [][VmNext]_vars
SpecPath == InitPath /\ [][PathNext]_vars
SpecRound == InitRound /\ [][RoundNext]_vars
SpecTrap == InitOther /\ [][TrapNext]_vars
SpecMp == InitMp /\ [][MpNext]_vars
SpecForkret == InitOther /\ [][FkNext]_vars
SpecStack == InitOther /\ [][StkNext]_vars
SpecSpin == InitOther /\ [][SpinNext]_vars

\* The buffers reached from a list head by following next (at most N_BUF
\* links: enough for every node of a well-formed list).
RECURSIVE Reach(_, _, _)
Reach(a, p, fuel) ==
    IF p = NULL \/ fuel = 0 THEN {}
    ELSE {p} \cup Reach(a, a[p].next, fuel - 1)

UsedSet == Reach(arena, used, N_BUF)
UnusedSet == Reach(arena, unused, N_BUF)
Handles(b) == LET RECURSIVE Sum(_)
                  Sum(S) == IF S = {} THEN 0
                            ELSE LET t == CHOOSE x \in S : TRUE
                                 IN held[t][b] + Sum(S \ {t})
              IN Sum(Threads)

----------------------------------------------------------------------------
(***************************************************************************)
(* Claims about the list cache                                             *)
(***************************************************************************)

\* C1: no two buffers of the cache (the in-use list, the one get searches)
\* carry the same (dev, block_no) at the same moment.
C1_UniqueIdentity ==
    \A x, y \in UsedSet :
        x # y => ~(arena[x].dev = arena[y].dev /\ arena[x].block_no = arena[y].block_no)

\* C2: a buffer's reference count is at least the number of live handles to
\* it, and it never underflows.
C2_RefCntCoversHandles ==
    \A b \in BufIdx : arena[b].ref_cnt >= 0 /\ arena[b].ref_cnt >= Handles(b)

\* C3: a buffer moves to the unused list only in a state where its reference
\* count is 0 and DIRTY is clear.
C3_UnusedOnlyWhenClean ==
    [][\A b \in BufIdx :
          (b \notin UnusedSet /\ b \in UnusedSet') => buf_unused(arena[b])]_vars

\* Position of buffer b in lastdrop (1 = released last), 0 if b never went
\* through Bcache::release.
DropPos(b) ==
    IF \E i \in 1..Len(lastdrop) : lastdrop[i] = b
    THEN CHOOSE i \in 1..Len(lastdrop) : lastdrop[i] = b
    ELSE 0

\* The step is a Bcache::get that missed and took buffer n off the unused list.
GetTakes(n) ==
    /\ ngets' # ngets
    /\ halted' = ""
    /\ n = unused
    /\ used # n
    /\ used' = n

\* C11: a get that misses takes the least recently released of the clean
\* unused buffers: no other clean buffer of the unused list was released
\* before the one taken.  The buffer taken comes back with its flags cleared,
\* one reference, on the in-use list.
C11_EvictsLeastRecentlyUsed ==
    [][\A n \in BufIdx :
          GetTakes(n) =>
             /\ arena'[n].flags = 0
             /\ arena'[n].ref_cnt = 1
             /\ n \in UsedSet'
             /\ \A m \in UnusedSet \ {n} :
                   (buf_unused(arena[m]) /\ DropPos(m) > 0 /\ DropPos(n) > 0)
                      => DropPos(m) < DropPos(n)]_vars

\* The step is a Bcache::get that ended in panic!("Bcache::get: no buffers").
GetPanics == halted = "" /\ halted' = "Bcache::get: no buffers"

\* The (dev, block_no) pairs some live handle refers to.
ReferencedBlocks ==
    {<<arena[b].dev, arena[b].block_no>> : b \in {x \in BufIdx : Handles(x) > 0}}

\* C12: get panics with 'no buffers' exactly when it misses and no buffer
\* has reference count 0 and DIRTY clear: a get that panics found no such
\* buffer, had at least N_BUF distinct blocks referenced, and rebinds
\* nothing; a get that misses and does not panic had such a buffer to take.
C12_PanicsExactlyWhenFull ==
    [][/\ GetPanics =>
             /\ ~\E m \in BufIdx : buf_unused(arena[m])
             /\ Cardinality(ReferencedBlocks) >= N_BUF
             /\ arena' = arena /\ used' = used /\ unused' = unused
       /\ \A n \in BufIdx :
             GetTakes(n) => \E m \in BufIdx : buf_unused(arena[m])]_vars

\* The buffers of a list in list order, head first (at most N_BUF links).
RECURSIVE Walk(_, _, _)
Walk(a, p, fuel) ==
    IF p = NULL \/ fuel = 0 THEN <<>>
    ELSE <<p>> \o Walk(a, a[p].next, fuel - 1)

UsedSeq == Walk(arena, used, N_BUF)

\* The step is a drop of the last reference that ran Bcache::release on b.
Releases(b) ==
    \E t \in Threads :
        dpc[t] = "release" /\ dpc'[t] = "idle" /\ dbuf[t] = b /\ halted' = ""

\* every BufRef has been dropped and no drop is under way
AllDropped ==
    /\ \A t \in Threads : dpc[t] = "idle" /\ \A b \in BufIdx : held[t][b] = 0
    /\ halted = ""

\* C13: a get that misses leaves its buffer at the head of the in-use list
\* with reference count 1; the drop of the last reference takes exactly that
\* buffer out of the in-use list, the others keeping their order, and makes
\* it the head of the unused list with (dev, block_no) as before; when every
\* reference has been dropped the in-use list is empty.
C13_ListsFollowGetAndDrop ==
    [][/\ \A n \in BufIdx :
             GetTakes(n) =>
                /\ used' = n /\ arena'[n].prev = NULL /\ arena'[n].next = used
                /\ arena'[n].ref_cnt = 1
       /\ \A b \in BufIdx :
             Releases(b) =>
                /\ UsedSeq' = SelectSeq(UsedSeq, LAMBDA x : x # b)
                /\ b \in UsedSet
                /\ unused' = b /\ arena'[b].next = unused
                /\ arena'[b].dev = arena[b].dev
                /\ arena'[b].block_no = arena[b].block_no
       /\ AllDropped' => used' = NULL]_vars


----------------------------------------------------------------------------
(***************************************************************************)
(* Claims about push_cli / pop_cli                                         *)
(***************************************************************************)

\* C7: n push_cli followed by n pop_cli on one CPU leave IF as it was before
\* the first push_cli: IF is clear from the first push to the last pop, and
\* the last pop sets it again exactly if it was set before the first push.
C7_PushPopRestoresIF ==
    [][\A c \in CPUs :
          /\ (cpu'[c].panic = "" /\ cpu'[c].num_cli > 0) => ~cpu'[c].IF
          /\ (cpu[c].num_cli = 1 /\ cpu'[c].num_cli = 0 /\ cpu'[c].panic = "")
                => cpu'[c].IF = cpu[c].outer[1]]_vars

\* two nested push_cli, entered with IF set, have been undone by two pop_cli
C7_Witness ==
    \E c \in CPUs :
        /\ cpu[c].num_cli = 0 /\ cpu[c].IF /\ cpu[c].int_enabled
        /\ cpu[c].deepest >= 2 /\ cpu[c].panic = ""
        /\ cpu[c].pc = "run" /\ ~cpu[c].in_intr

----------------------------------------------------------------------------
(***************************************************************************)
(* Claims about the inode cache                                            *)
(***************************************************************************)
\* the Inodes in memory for a key: on the used list (list), or alive, that is
\* with a strong count above 0 (map)
InMemory(key) ==
    IF idraft = "list"
    THEN {n \in Reach(iarena, iused, N_INODE) :
            iarena[n].dev = key[1] /\ iarena[n].inum = key[2]}
    ELSE {o \in INodes : iobj[o].state = "live"
                         /\ iobj[o].dev = key[1] /\ iobj[o].inum = key[2]}

IKeyOf(n) == IF idraft = "list" THEN <<iarena[n].dev, iarena[n].inum>>
                                ELSE <<iobj[n].dev, iobj[n].inum>>

IHolders(n) == {t \in Threads : ihold[t][n] > 0}

----------------------------------------------------------------------------
(***************************************************************************)
(* Claims about the map buffer cache, the IDE driver and sleep/wakeup      *)
(***************************************************************************)
\* the thread is inside bcache::read, or holds the handle it returned
InRead(t) == tpc[t] \in {"lock", "rfd_lock", "rfd_loop", "sleep", "asleep", "reacq", "have"}

KeyOf(t) == <<bufs[tbuf[t]].dev, bufs[tbuf[t]].block_no>>

ReadRequestsFor(a) ==
    {i \in DOMAIN ideq : ideq[i].by = "read_from_disk" /\ ideq[i].data = a}

\* C4: two threads that read the same uncached (dev, block_no) concurrently
\* both get through their call (neither is stopped by a panic), they hold the
\* same Buf, its reference count is 2 while both handles are live, at most
\* one read request for the Buf is queued, and once both calls have returned
\* the Buf is VALID.
C4_ConcurrentReads ==
    \A t, u \in Procs :
        (t # u /\ InRead(t) /\ InRead(u) /\ KeyOf(t) = KeyOf(u)) =>
            /\ ihalted = ""
            /\ tbuf[t] = tbuf[u]
            /\ cache[KeyOf(t)].ref_cnt = 2
            /\ Cardinality(ReadRequestsFor(tbuf[t])) <= 1
            /\ (tpc[t] = "have" /\ tpc[u] = "have")
                  => flag_valid(bufs[tbuf[t]].flags)

\* the thread has released lk inside sleep(chan, lk) and has not been
\* scheduled again
ReleasedLk(t, chan) ==
    /\ tbuf[t] = chan
    /\ \/ tpc[t] = "asleep"
       \/ tpc[t] = "sleep" /\ \E i \in 1..spos[t] : sleep_prog[i] = "release_lk"

\* C5: no wakeup is lost: a wakeup(chan) that runs after a sleeper on chan
\* has released lk inside sleep leaves that sleeper Runnable; in particular
\* it never runs between the release of lk and the recording of Sleeping.
C5_NoLostWakeup ==
    [][(hpc = "wakeup" /\ hpc' = "finish") =>
          \A t \in Procs :
              ReleasedLk(t, hreq.wait_chan) =>
                  (tpc[t] = "asleep" /\ pstate'[t] = "Runnable")]_vars

\* a sleeper that had released lk has been woken by wakeup on its channel
C5_Witness ==
    \E t \in Procs :
        tpc[t] = "asleep" /\ pstate[t] = "Runnable" /\ wakes[t] = 1

C9_ReadReturnsDiskBlock ==
    [][/\ (isr = T_IRQ0 + IRQ_IDE /\ isr' = 0) => hpc' = "lock"
       /\ \A t \in Procs :
            (tpc[t] = "rfd_loop" /\ tpc'[t] = "have") =>
                /\ flag_valid(bufs'[tbuf[t]].flags)
                /\ bufs'[tbuf[t]].data = disk'[bufs'[tbuf[t]].block_no]]_vars

\* C10: Buf::write of a DIRTY buffer appends a request whose command is Write
\* and whose data is the buffer; when it returns DIRTY is clear, the block on
\* the disk equals the payload the buffer had at the call and the payload is
\* unchanged.  Buf::write of a buffer that is not DIRTY appends nothing.
C10_WriteReachesDisk ==
    [][\A t \in Procs :
          /\ (tpc[t] = "wr_lock" /\ tpc'[t] = "wr_loop") =>
                /\ ideq'[Len(ideq')].cmd = "Write"
                /\ ideq'[Len(ideq')].data = tbuf[t]
          /\ (tpc[t] = "wr_loop" /\ tpc'[t] = "wr_ret") =>
                /\ ~flag_dirty(bufs'[tbuf[t]].flags)
                /\ disk'[bufs'[tbuf[t]].block_no] = wpay[t]
                /\ bufs'[tbuf[t]].data = wpay[t]
          /\ (tpc[t] = "have" /\ tpc'[t] = "wr_ret") => ideq' = ideq]_vars

----------------------------------------------------------------------------
(***************************************************************************)
(* Claims about SleepLock                                                  *)
(***************************************************************************)

\* Thread t is in SleepLock::acquire on the lock of its Buf and finds it
\* locked, and the step is the one t takes from there.
AcquireFindsLocked(t) ==
    /\ ihalted = ""
    /\ tpc[t] = "lock"
    /\ bufs[tbuf[t]].locked
    /\ (ihalted' # ihalted \/ tpc'[t] # tpc[t])

\* C14: a thread that finds the sleep lock taken goes to sleep on the lock's
\* address: it does not panic, it does not take the lock, and it is left
\* Sleeping on that channel.
C14_SleepLockSleepsWhenLocked ==
    [][\A t \in Procs :
          AcquireFindsLocked(t) =>
             /\ ihalted' = ""
             /\ pstate'[t] = "Sleeping"
             /\ pchan'[t] = tbuf[t]]_vars

----------------------------------------------------------------------------
(***************************************************************************)
(* Claims about SpinLock                                                   *)
(***************************************************************************)

\* the step is one CPU c takes inside acquire / release
SpinStepOf(c) == spc'[c] # spc[c] \/ cpu'[c] # cpu[c]

\* C15: acquire on a lock the CPU already holds ends in the assertion's
\* panic, it never goes on to the compare_and_swap loop; release of a lock
\* the CPU does not hold ends in the assertion's panic; neither changes the
\* lock's locked flag or its recorded holder.
C15_ReentryAndStrayReleasePanic ==
    [][\A c \in CPUs :
          /\ (spc[c].pc = "acq_assert" /\ spc[c].lk \in shold[c] /\ SpinStepOf(c))
                => /\ cpu'[c].panic = "acquire"
                   /\ spc'[c].pc # "acq_cas"
                   /\ slock' = slock
          /\ (spc[c].pc = "rel_assert" /\ spc[c].lk \notin shold[c] /\ SpinStepOf(c))
                => /\ cpu'[c].panic = "release"
                   /\ slock' = slock]_vars

\* one CPU has panicked in acquire on a lock it holds, another in release of
\* a lock it does not hold
C15_Witness ==
    \E c, d \in CPUs :
        /\ cpu[c].panic = "acquire" /\ spc[c].lk \in shold[c]
        /\ cpu[d].panic = "release" /\ spc[d].lk \notin shold[d]

----------------------------------------------------------------------------
(***************************************************************************)
(* Claims about the process table and the scheduler                        *)
(***************************************************************************)

\* the CPUs whose current_proc refers to process o
CurrentOn(o) == {c \in CPUs : current_proc[c] = o}

\* the CPUs whose scheduler has taken o from the runnable set
PickedBy(o) == {c \in CPUs : schp[c] = o}

InRunnable(o) == \E i \in 1..Len(runnable) : runnable[i] = o

\* C16: in every state a process is Running iff exactly one CPU's
\* current_proc refers to it.
C16_RunningIffCurrent ==
    \A o \in Slots :
        procs[o].state # "Free" =>
            ((procs[o].state = "Running") <=> (Cardinality(CurrentOn(o)) = 1))

\* C16 (as the code has it): a Running process is the current_proc of
\* exactly one CPU; no process is the current_proc of two CPUs; a process
\* that some CPU's current_proc refers to is Running, or it is still Runnable
\* and that CPU's scheduler is between its assignment of current_proc and
\* its assignment of state, holding the process-table lock; a process taken
\* by get_runnable has left the runnable set and was taken by one CPU only.
C16_RunningHasOneCpu ==
    \A o \in Slots :
        /\ procs[o].state = "Running" => Cardinality(CurrentOn(o)) = 1
        /\ Cardinality(CurrentOn(o)) <= 1
        /\ \A c \in CurrentOn(o) :
              \/ procs[o].state = "Running"
              \/ /\ procs[o].state = "Runnable"
                 /\ schpc[c] = "set_running" /\ schp[c] = o /\ ptableLock = c
        /\ Cardinality(PickedBy(o)) <= 1
        /\ PickedBy(o) # {} => ~InRunnable(o)

\* a process is Running on one CPU while another CPU's scheduler is looking
\* for a process to run
C16_Witness ==
    \E o \in Slots, c, d \in CPUs :
        /\ procs[o].state = "Running" /\ current_proc[c] = o /\ schp[c] = o
        /\ d # c /\ schpc[d] = "pick"

\* C17: the pids handed out are strictly increasing and start at 1, and no
\* two processes carry the same pid, whichever CPUs call alloc_proc and
\* whatever processes have gone in between.
C17_PidsIncreaseNeverReused ==
    /\ Len(pidlog) > 0 => pidlog[1] = 1
    /\ \A i, j \in 1..Len(pidlog) : i < j => pidlog[i] < pidlog[j]
    /\ \A o, q \in Slots :
          (o # q /\ procs[o].state # "Free" /\ procs[q].state # "Free")
             => procs[o].pid # procs[q].pid
    /\ \A o \in Slots :
          procs[o].state # "Free" => \E i \in 1..Len(pidlog) : pidlog[i] = procs[o].pid

\* three pids have been handed out, an earlier process is gone, and the
\* cell of a process that is gone holds a later process
C17_Witness ==
    /\ Len(pidlog) >= 3
    /\ \E i \in 1..Len(pidlog) : \A o \in Slots : procs[o].pid # pidlog[i]
    /\ \E o \in Slots : procs[o].state # "Free" /\ procs[o].pid = pidlog[Len(pidlog)]
    /\ Cardinality({o \in Slots : procs[o].state # "Free"}) >= 2

----------------------------------------------------------------------------
(***************************************************************************)
(* Claims about the page allocator                                         *)
(***************************************************************************)

\* A step that changes kret[c] to anything but NoCall is a return of kalloc
\* on CPU c (kfree resets kret[c] to NoCall).
\* C18: kalloc returns the most recently freed frame that has not been
\* allocated again, never a frame that is allocated, and None exactly when
\* no frame is free; the list holds exactly the free frames.
C18_KallocIsLifo ==
    [][\A c \in CPUs :
          (kret'[c] # kret[c] /\ kret'[c] # NoCall) =>
             /\ (kret'[c] = NULL) <=> (kfreed = <<>>)
             /\ kret'[c] # NULL =>
                   /\ kret'[c] = kfreed[1]
                   /\ kowner[kret'[c]] = "free"
                   /\ kfreed' = Tail(kfreed)]_vars

\* after init2 a CPU other than the boot CPU holds the frame kalloc gave
\* it, a frame freed after the one that is now first on the list
C18_Witness ==
    \E c \in CPUs :
        /\ c # BootCpu /\ kret[c] \in Frames
        /\ kowner[kret[c]] = ToString(c)
        /\ Len(kfreed) >= 1
        /\ kret[BootCpu] = NoCall /\ use_lock
        /\ kret[c] > kfreed[1]

----------------------------------------------------------------------------
(***************************************************************************)
(* Claims about map_pages                                                  *)
(***************************************************************************)

\* the PTE the hardware reaches for va through the directory pd: 0 (not
\* present) when the directory entry is not present
PteOf(pd, mem, va) ==
    LET w == walk_page_dir(pd, mem, {}, va, FALSE)
    IN IF w.tab = NULL THEN 0 ELSE mem[w.tab][w.idx]

\* the pages map_pages covers: from the page of va to the page of its last byte
Covered(va, size) ==
    {a \in {p * PAGE_SIZE : p \in 0..(NPDENTRIES * NPTENTRIES - 1)} :
        round_down(va, PAGE_SIZE) <= a /\ a <= round_down(va + size - 1, PAGE_SIZE)}

\* C19: after a map_pages that succeeds, the PTE for va + k, for every
\* page-aligned k < size, is present, has frame address pa + k and flags
\* exactly perm | PRESENT; the PTE of every page outside the covered range
\* is what it was before the call.
C19_MapPagesMapsRange ==
    [][(nmaps' # nmaps /\ mcall'.res = "ok") =>
          LET c == mcall'
          IN /\ \A k \in {j * PAGE_SIZE : j \in 0..(NPDENTRIES * NPTENTRIES)} :
                   k < c.size =>
                      LET pte == PteOf(pgdir', ptmem', c.va + k)
                      IN /\ pte_flags_check(pte, PRESENT)
                         /\ pte_addr(pte) = c.pa + k
                         /\ pte_flags(pte) = BitOr(c.perm, PRESENT)
             /\ \A a \in {p * PAGE_SIZE : p \in 0..(NPDENTRIES * NPTENTRIES - 1)} :
                   a \notin Covered(c.va, c.size) =>
                      PteOf(pgdir', ptmem', a) = PteOf(pgdir, ptmem, a)]_vars

\* a second map_pages succeeded: it started inside a page and covered two
\* pages, both of kalloc's frames are page tables by now, and a page outside
\* the covered range is still mapped as the first call left it
C19_Witness ==
    /\ nmaps = 2 /\ mcall.res = "ok"
    /\ mcall.va % PAGE_SIZE # 0
    /\ Cardinality(Covered(mcall.va, mcall.size)) = 2
    /\ ptfree = {}
    /\ \E a \in {p * PAGE_SIZE : p \in 0..(NPDENTRIES * NPTENTRIES - 1)} :
          a \notin Covered(mcall.va, mcall.size) /\ pte_flags_check(PteOf(pgdir, ptmem, a), PRESENT)

----------------------------------------------------------------------------
(***************************************************************************)
(* Claims about split_first                                                *)
(***************************************************************************)

\* p[i..j] is the maximal run of bytes other than '/' that follows p's
\* leading slashes
FirstRun(p, i, j) ==
    /\ 1 <= i /\ i <= j /\ j <= Len(p)
    /\ \A k \in 1..(i - 1) : p[k] = SLASH
    /\ \A k \in i..j : p[k] # SLASH
    /\ (j = Len(p) \/ p[j + 1] = SLASH)

\* r is where the slashes that follow position j end
AfterSlashes(p, j, r) ==
    /\ j < r /\ r <= Len(p) + 1
    /\ \A k \in (j + 1)..(r - 1) : p[k] = SLASH
    /\ (r = Len(p) + 1 \/ p[r] # SLASH)

\* C20: split_first(p) is None iff p has no byte other than '/'; otherwise
\* it is (first, rest) with first the maximal run of non-'/' bytes after
\* p's leading slashes and rest what follows the run without its leading
\* slashes: rest does not start with '/', and is empty iff no byte other
\* than '/' follows first.
C20_SplitFirstSplits ==
    split.called =>
        LET p == split.arg
        IN /\ (~split.res.some) <=> (\A k \in 1..Len(p) : p[k] = SLASH)
           /\ split.res.some =>
                 \E i \in 1..Len(p), j \in 1..Len(p) :
                    /\ FirstRun(p, i, j)
                    /\ split.res.first = SubSeq(p, i, j)
                    /\ \E r \in 1..(Len(p) + 1) :
                          /\ AfterSlashes(p, j, r)
                          /\ split.res.rest = SubSeq(p, r, Len(p))
                    /\ (split.res.rest = <<>> \/ Head(split.res.rest) # SLASH)
                    /\ (split.res.rest = <<>>) <=> (\A k \in (j + 1)..Len(p) : p[k] = SLASH)

\* split_first took the first of two names off a path that starts with
\* slashes and has several slashes between the names
C20_Witness ==
    /\ split.called /\ split.res.some
    /\ Len(split.arg) = MaxPathLen
    /\ split.arg[1] = SLASH /\ split.arg[3] = SLASH /\ split.arg[4] = SLASH
    /\ split.res.first = <<97>> /\ split.res.rest = <<98>>

\* the non-empty '/'-separated components of p, in order: p is read byte by
\* byte, cur is the component being read, acc the components read
RECURSIVE ComponentsFrom(_, _, _)
ComponentsFrom(p, cur, acc) ==
    LET closed == IF cur = <<>> THEN acc ELSE Append(acc, cur)
    IN IF p = <<>> THEN closed
       ELSE IF Head(p) = SLASH THEN ComponentsFrom(Tail(p), <<>>, closed)
       ELSE ComponentsFrom(Tail(p), Append(cur, Head(p)), acc)
Components(p) == ComponentsFrom(p, <<>>, <<>>)

\* the elements of ns joined with single '/' separators
RECURSIVE Join(_)
Join(ns) ==
    IF ns = <<>> THEN <<>>
    ELSE IF Len(ns) = 1 THEN ns[1]
    ELSE ns[1] \o <<SLASH>> \o Join(Tail(ns))

\* C21: iterating split_first on its own remainder terminates: every call
\* that returns an element leaves a strictly shorter path; and when it
\* returns None the elements returned, joined with single '/', are the
\* non-empty '/'-separated components of the path in their order.
C21_SplitFirstIterates ==
    /\ [][split'.res.some => Len(path') < Len(path)]_vars
    /\ []((split.called /\ ~split.res.some) =>
             /\ names = Components(path0)
             /\ Join(names) = Join(Components(path0)))

\* the walk of a path with leading, doubled and trailing slashes has ended
\* after two elements
C21_Witness ==
    /\ split.called /\ ~split.res.some
    /\ Len(names) = 2
    /\ Len(path0) = MaxPathLen
    /\ path0[1] = SLASH /\ path0[3] = SLASH /\ path0[5] = SLASH

----------------------------------------------------------------------------
(***************************************************************************)
(* Claims about Addr::round_up and Addr::round_down                        *)
(***************************************************************************)

\* C22: for a power-of-two align, round_down(a, align) is the largest
\* multiple of align that is <= a; round_up(a, align) is the smallest
\* multiple of align that is >= a, taken modulo the range of usize (so the
\* last address rounds up to 0); an aligned address is returned unchanged
\* by both.
C22_RoundToMultiples ==
    rounded.called =>
        LET multiples == {k * ralign : k \in 0..(UsizeRange \div ralign)}
            below == {x \in multiples : x <= raddr}
            above == {x \in multiples : x >= raddr}
        IN /\ rounded.down \in below
           /\ \A x \in below : x <= rounded.down
           /\ \E u \in above : /\ \A x \in above : u <= x
                               /\ rounded.up = u % UsizeRange
           /\ (raddr % ralign = 0) => (rounded.up = raddr /\ rounded.down = raddr)

\* the last address was rounded to a page-sized alignment: up wrapped to 0
C22_Witness ==
    /\ rounded.called
    /\ raddr = UsizeRange - 1
    /\ ralign = Pow2(UsizeBits - 2)
    /\ rounded.up = 0
    /\ rounded.down = UsizeRange - ralign

----------------------------------------------------------------------------
(***************************************************************************)
(* Claims about the IDE queue                                              *)
(***************************************************************************)

\* thread t's step is the append of read_from_disk or write_to_disk
Appends(t) ==
    \/ tpc[t] = "rfd_lock" /\ tpc'[t] = "rfd_loop"
    \/ tpc[t] = "wr_lock" /\ tpc'[t] = "wr_loop"

\* C23: whenever the IDE queue lock is free, running is true iff the queue
\* is non-empty, and then the drive's registers name the head request's
\* device and block and start() has run once since the last completion; an
\* append starts the drive iff the queue was empty.
C23_RunningIffHeadInFlight ==
    /\ [](ideLock = FREE =>
            /\ running <=> (ideq # <<>>)
            /\ ideq # <<>> =>
                  /\ drive.sector = Head(ideq).block_no
                  /\ drive.dev = Head(ideq).dev % 2
                  /\ drive.starts = 1)
    /\ [][\A t \in Procs :
            Appends(t) => ((drive'.starts # drive.starts) <=> (ideq = <<>>))]_vars

\* two requests are queued with the lock free, the second request's block is
\* not the one the drive was programmed with, and a request has completed
\* before (a Buf is VALID)
C23_Witness ==
    /\ ideLock = FREE /\ running
    /\ Len(ideq) = 2
    /\ ideq[2].block_no # drive.sector
    /\ \E a \in Cells : bufs[a].live /\ flag_valid(bufs[a].flags)

\* A run of ide_intr, step by step: with a non-empty queue it pops the head
\* (the queue keeps the order of the appends), sets VALID and clears DIRTY
\* at the request's flags, wakes the sleepers on the request's channel and
\* programs the drive with the next request if there is one; with an empty
\* queue it changes nothing.
IdeIntrCompletesHead ==
    /\ \A t \in Procs : Appends(t) => ideq' = Append(ideq, ideq'[Len(ideq')])
    /\ (hpc = "lock" /\ hpc' # "lock" /\ ideq # <<>>) =>
          /\ hpc' = "wakeup"
          /\ ideq' = Tail(ideq)
          /\ [hreq' EXCEPT !.status = 0] = Head(ideq)
          /\ flag_valid(bufs'[hreq'.flags].flags)
          /\ ~flag_dirty(bufs'[hreq'.flags].flags)
    /\ (hpc = "wakeup" /\ hpc' # "wakeup") =>
          \A t \in Procs :
             (pstate[t] = "Sleeping" /\ pchan[t] = hreq.wait_chan) => pstate'[t] = "Runnable"
    /\ (hpc = "finish" /\ hpc' # "finish") =>
          /\ ideq' = ideq
          /\ IF ideq # <<>>
             THEN /\ running' /\ drive'.starts = 1
                  /\ drive'.sector = Head(ideq).block_no
             ELSE ~running' /\ drive' = drive
    /\ (hpc = "lock" /\ hpc' # "lock" /\ ideq = <<>>) =>
          /\ hpc' = "none"
          /\ UNCHANGED <<cache, bufs, ideq, running, ideLock, drive, disk, ptLock,
                         pstate, pchan, tpc, tbuf, tfn, spos, isr, hreq, ihalted>>

\* C24: IDE requests complete in the order of their appends: an IDE
\* interrupt (the trap for T_IRQ0 + IRQ_IDE) taken with a non-empty queue
\* runs ide_intr, which completes exactly the head request and starts the
\* next one if there is one; taken with an empty queue it changes nothing.
C24_InterruptCompletesHead ==
    [][/\ (isr = T_IRQ0 + IRQ_IDE /\ isr' = 0 /\ ideq # <<>>) => hpc' = "lock"
       /\ IdeIntrCompletesHead]_vars

\* ide_intr alone, however it is entered (this holds)
IdeIntrRunsCompleteHead == [][IdeIntrCompletesHead]_vars

\* the status byte r reports a device fault or an error
ReportsError(r) == (r \div IDE_DF) % 2 = 1 \/ (r \div IDE_ERR) % 2 = 1

\* C25: when a read request completes with DF or ERR in the drive's status
\* the kernel panics, and a Buf is marked VALID only by a completion that
\* has transferred its payload from the disk.
C25_ReadErrorIsFatal ==
    [][(hpc = "lock" /\ hpc' = "wakeup") =>
          /\ (hreq'.cmd = "Read" /\ ReportsError(hreq'.status)) => ihalted' # ""
          /\ (flag_valid(bufs'[hreq'.flags].flags) /\ ~flag_valid(bufs[hreq'.flags].flags))
                => ~ReportsError(hreq'.status)]_vars
----------------------------------------------------------------------------
(***************************************************************************)
(* Claims about the order and the scope of the spinlocks                   *)
(***************************************************************************)
\* the order of the spinlocks the specification gives: IDE queue, buffer
\* cache, inode cache, process table
LockOrder == <<"IDE_QUE", "bcache", "icache", "ptable">>

LockRank(l) == CHOOSE i \in 1..Len(LockOrder) : LockOrder[i] = l

Ordered == {LockOrder[i] : i \in 1..Len(LockOrder)}

\* C26: no thread acquires one of the spinlocks of the IDE queue, the buffer
\* cache, the inode cache and the process table while it holds one that
\* comes later in that order.
C26_LockOrder ==
    \A e \in lockEdges :
        (e[1] \in Ordered /\ e[2] \in Ordered) => LockRank(e[1]) < LockRank(e[2])
\* the process spinlocks CPU c holds
ProcLocksHeld(c) == {o \in Slots : plock[o] = c}

\* C27: a thread that suspends holds no spinlock other than the one it
\* passed to sleep; in particular the scheduler does not hold a process's
\* own spinlock across the context switch into that process.
C27_NoProcessLockAcrossSwitch ==
    [][\A c \in CPUs :
          (schpc[c] = "switch" /\ schpc'[c] # "switch") => ProcLocksHeld(c)' = {}]_vars
----------------------------------------------------------------------------
(***************************************************************************)
(* Claims about num_cli                                                    *)
(***************************************************************************)
\* CPU c runs a pop_cli in this step, in a thread or in a handler
Pops(c) == PopCli(c) \/ IntrPopCli(c)

\* C28: on every CPU IF is clear while num_cli > 0; num_cli is never negative
\* and is the number of push_cli calls not yet matched by a pop_cli; a
\* pop_cli with num_cli = 0 or with IF set panics.
C28_NumCliCountsPushes ==
    /\ [](\A c \in CPUs :
            /\ cpu[c].num_cli > 0 => ~cpu[c].IF
            /\ cpu[c].num_cli >= 0
            /\ cpu[c].num_cli = Len(cpu[c].outer))
    /\ [][\A c \in CPUs :
            (Pops(c) /\ (cpu[c].num_cli = 0 \/ cpu[c].IF))
                => /\ cpu'[c].panic \in {"pop_cli - interruptible", "pop_cli: num_cli zero"}
                   /\ cpu'[c].num_cli = cpu[c].num_cli]_vars

\* one CPU is two push_cli deep inside an interrupt handler; on the other a
\* pop_cli found num_cli zero and panicked
C28_Witness ==
    \E c, d \in CPUs :
        /\ cpu[c].in_intr /\ cpu[c].hdepth = 2 /\ cpu[c].num_cli = 2 /\ cpu[c].panic = ""
        /\ cpu[d].panic = "pop_cli: num_cli zero" /\ cpu[d].num_cli = 0

\* a CPU has at least as many unmatched push_cli as spinlocks it has acquired
\* and not yet released
NumCliCoversLocks ==
    \A c \in CPUs :
        cpu[c].panic = "" =>
            cpu[c].num_cli >= Cardinality({l \in Locks : slock[l].locked /\ slock[l].cpu = c})
----------------------------------------------------------------------------
(***************************************************************************)
(* Claims about the two lists of the list cache                            *)
(***************************************************************************)
\* The list at head is a well-formed doubly linked list: the head has no
\* prev, every node is the prev of its next, and following next ends
\* within N_BUF nodes.
WellFormedList(head) ==
    /\ head # NULL => arena[head].prev = NULL
    /\ \A x \in Reach(arena, head, N_BUF) :
          arena[x].next # NULL => arena[arena[x].next].prev = x
    /\ Len(Walk(arena, head, N_BUF + 1)) <= N_BUF
    /\ Cardinality(Reach(arena, head, N_BUF)) = Len(Walk(arena, head, N_BUF))

\* C29: after any interleaving of get and reference drops each buffer is on
\* exactly one of the in-use list and the unused list, both are well-formed
\* doubly linked lists, and every buffer with reference count > 0 is on the
\* in-use list.
C29_ListsPartitionBuffers ==
    halted = "" =>
        /\ \A b \in BufIdx : (b \in UsedSet) # (b \in UnusedSet)
        /\ WellFormedList(used)
        /\ WellFormedList(unused)
        /\ \A b \in BufIdx : arena[b].ref_cnt > 0 => b \in UsedSet
----------------------------------------------------------------------------
(***************************************************************************)
(* Claims about the timer trap                                             *)
(***************************************************************************)
\* C30: each trap with trap_no = T_IRQ0 + IRQ_TIMER increments the global
\* tick counter by exactly one and sends one LAPIC EOI (the wakeup of the
\* sleepers on the ticks channel follows the increment).
C30_TimerTrapAdvancesTicks ==
    [][\A c \in CPUs :
          (tno[c] = T_IRQ0 + IRQ_TIMER /\ tno'[c] = 0)
              => TICKS' = TICKS + 1 /\ eois'[c] = eois[c] + 1]_vars
----------------------------------------------------------------------------
(***************************************************************************)
(* Claims about the start of the application processors                    *)
(***************************************************************************)
\* the step sends an IPI to CPU c
SendsIpi(c) == Len(ipis'[c]) > Len(ipis[c])

\* C31: start_others starts the application processors one at a time: no
\* IPI goes to an AP while an AP that was sent IPIs before has not published
\* started; an AP sets started only after switch_kvm, seginit, the LAPIC
\* init and idt_init, never clears it, and when start_others returns every
\* CPU other than the boot CPU has started = TRUE.
C31_StartsApsOneAtATime ==
    /\ [][\A c \in MpCpus :
            /\ SendsIpi(c) =>
                  /\ c # main_cpu_id
                  /\ \A d \in MpCpus \ {c} : ipis[d] # <<>> => started[d]
            /\ (~started[c] /\ started'[c] /\ c # main_cpu_id) =>
                  {"switch_kvm", "seginit", "lapic_init", "idt_init"} \subseteq MpDone(c)
            /\ started[c] => started'[c]]_vars
    /\ [](so.pc = "returned" =>
            \A c \in MpCpus \ {main_cpu_id} : started[c] /\ ipis[c] = start_ap)

\* start_others has returned on a boot CPU that is not the first of cpus(),
\* with three application processors started
C31_Witness ==
    /\ so.pc = "returned"
    /\ main_cpu_id = 2
    /\ \A c \in MpCpus \ {main_cpu_id} : started[c] /\ mpc[c] = Len(mp_prog) - 1
----------------------------------------------------------------------------
(***************************************************************************)
(* Claims about forkret                                                    *)
(***************************************************************************)
\* C32: the first-time branch of forkret is executed exactly once, by the
\* first process to enter forkret, also when two CPUs are in forkret at the
\* same time; every later call skips it and goes on to trapret.
C32_FirstTimeBranchOnce ==
    /\ [](/\ first_runs <= 1
          /\ \A c \in MpCpus :
                /\ fpc[c] = "panicked" => fentered[1] = c
                /\ (fpc[c] = "branch" /\ fcas[c]) => fentered[1] = c
          /\ (fentered # <<>> /\ \A c \in MpCpus : fpc[c] # "branch") => first_runs = 1)
    /\ [][\A c \in MpCpus :
            (fpc[c] = "branch" /\ fpc'[c] # "branch" /\ fentered[1] # c)
                => fpc'[c] = "trapret" /\ first_runs' = first_runs]_vars

\* two CPUs were in forkret at the same time: one ran the first-time branch,
\* the other, which entered second, went on to trapret
C32_Witness ==
    \E c, d \in MpCpus :
        /\ c # d /\ Len(fentered) >= 2 /\ fentered[1] = c /\ fentered[2] = d
        /\ fpc[c] = "panicked" /\ fpc[d] = "trapret" /\ first_runs = 1
----------------------------------------------------------------------------
(***************************************************************************)
(* Claims about the slots of the inode cache                               *)
(***************************************************************************)
\* the Inodes some thread holds a reference to, or is dropping one of
IReferenced == {n \in INodes : IHolders(n) # {} \/ \E t \in Threads : idrop[t] = n}

\* C33: a sequence of Icache::get calls and reference drops that never holds
\* references to more than N_INODE distinct inodes at once never panics with
\* 'no inodes': the slot of an inode whose last reference was dropped is
\* there to be rebound.
C33_SlotsComeBack ==
    [][(ihalt = "" /\ ihalt' = "inode::get: no inodes")
          => Cardinality(IReferenced) >= N_INODE]_vars
----------------------------------------------------------------------------
(***************************************************************************)
(* Claims about the start of name_x                                        *)
(***************************************************************************)
\* C34: name_x starts the walk at the root inode for every path whose first
\* byte is '/', and at the cwd of the current process for every other path,
\* the empty path included.
C34_StartsAtRootForAbsolute ==
    nstart # "none" =>
        nstart = (IF path0 # <<>> /\ path0[1] = SLASH THEN "root" ELSE "cwd")
----------------------------------------------------------------------------
(***************************************************************************)
(* Claims about remapping                                                  *)
(***************************************************************************)
VmPages == {p * PAGE_SIZE : p \in 0..(NPDENTRIES * NPTENTRIES - 1)}

\* the P bit of an entry, as the hardware reads it
PresentBit(e) == (e \div PRESENT) % 2 = 1

\* the pages of the range whose PTE is present before the step
PresentCovered(va, size) ==
    {a \in Covered(va, size) : PresentBit(PteOf(pgdir, ptmem, a))}

\* no PTE that is present before the step is changed by it
KeepsPresentPtes ==
    \A a \in VmPages :
        PresentBit(PteOf(pgdir, ptmem, a))
            => PteOf(pgdir', ptmem', a) = PteOf(pgdir, ptmem, a)

\* C35: map_pages panics ('remap') if any page of the covered range already
\* has a PRESENT PTE in pd, and never overwrites a present PTE.
C35_RemapPanics ==
    [][nmaps' # nmaps =>
          /\ PresentCovered(mcall'.va, mcall'.size) # {} => mcall'.res = "remap"
          /\ KeepsPresentPtes]_vars

\* C35 as the code has it: map_pages never overwrites a present PTE; it
\* panics ('remap') only for a range with a present PTE, and a call on such
\* a range either panics or returns None, the latter when walk_page_dir had
\* no frame left for the page table of a page that comes before the first
\* present one.
C35_RemapPanicsWhenReached ==
    [][nmaps' # nmaps =>
          LET c == mcall'
              pc == PresentCovered(c.va, c.size)
          IN /\ KeepsPresentPtes
             /\ c.res = "remap" => pc # {}
             /\ pc # {} =>
                   \/ c.res = "remap"
                   \/ /\ c.res = "none"
                      /\ ptfree' = {}
                      /\ \E a \in Covered(c.va, c.size) :
                            /\ \A b \in pc : a < b
                            /\ ~PresentBit(pgdir[pdx(a)])]_vars

\* a map_pages whose range has an unmapped page and then a mapped one has
\* panicked, the unmapped page mapped and the mapped one as it was
C35_Witness ==
    /\ nmaps = 2 /\ mcall.res = "remap"
    /\ Cardinality(Covered(mcall.va, mcall.size)) >= 2
    /\ \A a \in Covered(mcall.va, mcall.size) :
          PresentBit(PteOf(pgdir, ptmem, a))
    /\ \E a, b \in Covered(mcall.va, mcall.size) :
          pte_addr(PteOf(pgdir, ptmem, a)) # pte_addr(PteOf(pgdir, ptmem, b)) + (a - b)
----------------------------------------------------------------------------
(***************************************************************************)
(* Claims about mutual exclusion                                           *)
(***************************************************************************)
\* CPU c has lock l: its compare_and_swap succeeded and it has not yet
\* stored false into locked
HasLock(c, l) == l \in shold[c] \/ (spc[c].pc = "acq_store" /\ spc[c].lk = l)

\* CPU c is between the return of acquire(l) and the call of release(l)
InCritical(c, l) ==
    l \in shold[c] /\ ~(spc[c].lk = l /\ spc[c].pc \in {"rel_cpu", "rel_locked"})

\* C36: at most one CPU at a time is between a successful acquire of a lock
\* and the matching release, the lock's recorded holder is that CPU, and a
\* CPU spinning in acquire gets the lock only after the holder's release.
C36_MutualExclusion ==
    /\ [](\A l \in Locks :
            /\ \A c, d \in CPUs : (HasLock(c, l) /\ HasLock(d, l)) => c = d
            /\ \A c \in CPUs :
                  InCritical(c, l) => slock[l].locked /\ slock[l].cpu = c)
    /\ [][\A c \in CPUs :
            (spc[c].pc = "acq_cas" /\ spc'[c].pc = "acq_store")
                => \A d \in CPUs : ~HasLock(d, spc[c].lk)]_vars

\* one CPU is inside the critical section of a lock that the other CPU,
\* which holds the other lock, is spinning for
C36_Witness ==
    \E c, d \in CPUs, l, k \in Locks :
        /\ c # d /\ l # k
        /\ InCritical(c, l) /\ spc[c].pc = "idle"
        /\ InCritical(d, k) /\ spc[d].pc = "acq_cas" /\ spc[d].lk = l
----------------------------------------------------------------------------
(***************************************************************************)
(* Claims about the drop of the last reference                             *)
(***************************************************************************)
\* the threads that are about to run Bcache::release on buffer b
Releasing(b) == {t \in Threads : dpc[t] = "release" /\ dbuf[t] = b}

\* C37: Bcache::release runs exactly once for each fall of a buffer's
\* reference count to zero and only while the count is still zero: at most
\* one thread is on its way to release a buffer, and the buffer is then
\* still on the in-use list with count zero; no thread holds a handle to a
\* buffer on the unused list; the assertion ref_cnt == 0 in release never
\* fails.
C37_ReleaseOncePerFall ==
    /\ halted # "Bcache::release: assert_eq ref_cnt 0"
    /\ halted = "" =>
          \A b \in BufIdx :
              /\ Cardinality(Releasing(b)) <= 1
              /\ Releasing(b) # {} => arena[b].ref_cnt = 0 /\ b \in UsedSet
              /\ b \in UnusedSet => Handles(b) = 0
----------------------------------------------------------------------------
(***************************************************************************)
(* Claims about the lifetime of a Buf in the map draft                     *)
(***************************************************************************)
\* C38: a Buf's storage is never freed while its sleep lock is held or
\* while a thread still refers to it: the heap cell a thread's BufLocked
\* (and the guard inside it) points to is a live Buf, up to and including
\* the release of its sleep lock.
C38_NoFreeWhileReferred ==
    \A t \in Procs : tbuf[t] # NULL => bufs[tbuf[t]].live
----------------------------------------------------------------------------
(***************************************************************************)
(* Claims about the process-table lock while a process runs                *)
(***************************************************************************)
\* C39: while a CPU is running a process that it picked it does not hold the
\* process-table lock (so that another CPU's scheduler can take the lock
\* and pick a different Runnable process): the step that switches CPU c
\* into the process it picked leaves the lock with a CPU other than c or
\* free.
C39_RunsProcessWithoutPtableLock ==
    [][\A c \in CPUs :
          (schpc[c] = "switch" /\ schpc'[c] # "switch") => ptableLock' # c]_vars
----------------------------------------------------------------------------
(***************************************************************************)
(* Claims about kernel stacks                                              *)
(***************************************************************************)
\* the frames the bytes from s.low up to s.esp0 lie in
Touched(s) == {f \in 0..(NStackFrames + 1) : \E a \in {s.low, s.esp0 - 1} : FrameOf(a) = f}
    \cup {f \in 0..(NStackFrames + 1) : FrameOf(s.low) < f /\ f < FrameOf(s.esp0 - 1)}

\* C40: the memory used as a kernel stack lies inside the frame kalloc gave
\* for it: for a process the Context, the trapret slot, the trap frame and
\* esp0 = kernel_stack + KSTACKSIZE are within the frame, in that order from
\* the bottom; for an application processor the stack top is within its
\* frame; no kernel stack overlaps another kernel stack or another frame.
C40_StackInsideFrame ==
    \A s \in kstacks :
        /\ s.kernel_stack <= s.low
        /\ s.esp0 <= s.kernel_stack + PAGE_SIZE
        /\ s.kind = "proc" =>
              /\ s.kernel_stack <= s.context
              /\ s.context + SizeofContext <= s.ret_slot
              /\ s.ret_slot + SizeofFnPtr <= s.trap_frame
              /\ s.trap_frame + SizeofTrapFrame <= s.kernel_stack + PAGE_SIZE
        /\ Touched(s) = {FrameOf(s.kernel_stack)}
        /\ \A u \in kstacks : u # s => Touched(u) \cap Touched(s) = {}

====
